---- MODULE Spec2Model ----
(***************************************************************************)
(* suica-viewer: the remote FeliCa client (auth_client.py) and the chunked *)
(* block reader built on it (cli.py / gui.py), as state machines.          *)
(*                                                                         *)
(* Spec      the FelicaRemoteClient: mutual_authentication,                *)
(*           encryption_exchange and reset, one action per blocking I/O    *)
(*           step (an HTTP attempt of _KeepAliveHTTPClient.post, a card    *)
(*           exchange), the authority and the card being the environment.  *)
(* SpecRead  RemoteCardReader.read_blocks, one action per chunk.           *)
(***************************************************************************)
EXTENDS Integers, Sequences, FiniteSets, TLC

VARIABLES
    session_id,     \* FelicaRemoteClient.session_id
    authenticated,  \* FelicaRemoteClient.authenticated
    connection,     \* _KeepAliveHTTPClient._connection: "none" or "open"
    pc,             \* position of the calling thread: "idle", "post", "card"
    op,             \* the operation in progress (or the last one)
    phase,          \* encryption_exchange: "first" or "final" request
    rounds,         \* auth1/auth2 steps processed by this mutual_authentication
    req,            \* the request being posted (path and JSON payload)
    attempt,        \* loop index of post()'s `for attempt in range(2)`
    attempts,       \* the attempts made so far by the post() call in progress
    reply,          \* the last HTTP reply read by post()
    command,        \* the _CommandEnvelope extracted from the last response
    exchanged,      \* arguments and result of the last tag.clf.exchange call
    log,            \* the I/O events of the operation in progress, in order
    ret,            \* how the last operation ended
    nOps,           \* operations started so far
    tag,            \* FelicaRemoteClient.tag: the card the client talks to
    args,           \* the arguments of the last operation called
    rb,             \* RemoteCardReader.read_blocks in progress
    cd,             \* the card tap being handled (SpecCollect)
    dec             \* the decoding function applied last (SpecDecode)

vars == <<session_id, authenticated, connection, pc, op, phase, rounds, req,
          attempt, attempts, reply, command, exchanged, log, ret, nOps, tag,
          args, rb, cd, dec>>

clientVars == <<session_id, authenticated, connection, pc, op, phase, rounds,
                req, attempt, attempts, reply, command, exchanged, log, ret,
                nOps, tag, args>>

(***************************************************************************)
(* Bounds of the model.                                                    *)
(***************************************************************************)
MaxOps == 3        \* operations started in one behaviour
MaxRounds == 2     \* auth1/auth2 steps the authority sends in one authentication
MaxIndices == 25   \* block indices handed to one read_blocks call

(***************************************************************************)
(* Program constants.                                                      *)
(***************************************************************************)
MaxAttempts == 2                 \* for attempt in range(2)
HttpErrorStatus == 400           \* if response.status >= 400
default_exchange_timeout == 1    \* default_exchange_timeout: float = 1.0
READ_COMMAND_CODE == 20          \* 0x14
DATA_BLOCK_SIZE == 16
MAX_BLOCKS_PER_REQUEST == 12

(***************************************************************************)
(* JSON values.  A key of a JSON object is Absent, or holds null, a string *)
(* or a number.  Python's None is Null.                                    *)
(***************************************************************************)
Absent == <<"absent">>
Null == <<"null">>
Str(s) == <<"str", s>>
Num(n) == <<"num", n>>
Obj(o) == <<"obj", o>>

\* dict.get(key): the value, None when the key is missing
Get(field) == IF field = Absent THEN Null ELSE field

\* Python truthiness of a JSON value
Truthy(v) ==
    /\ v[1] \in {"str", "num", "obj"}
    /\ v[1] = "str" => v[2] # ""
    /\ v[1] = "num" => v[2] # 0

(***************************************************************************)
(* Hex encoding.  A hex string is a sequence of one-character strings, a   *)
(* byte string a sequence of 0..255.                                       *)
(***************************************************************************)
HexLower == <<"0","1","2","3","4","5","6","7","8","9","a","b","c","d","e","f">>
HexUpper == <<"0","1","2","3","4","5","6","7","8","9","A","B","C","D","E","F">>

IsHexDigit(c) == \E i \in 1..16 : HexLower[i] = c \/ HexUpper[i] = c
HexVal(c) == (CHOOSE i \in 1..16 : HexLower[i] = c \/ HexUpper[i] = c) - 1

\* bytes.hex(): two lowercase digits per byte
ToHex(bytes) ==
    [i \in 1..(2 * Len(bytes)) |->
        IF i % 2 = 1 THEN HexLower[(bytes[(i + 1) \div 2] \div 16) + 1]
        ELSE HexLower[(bytes[i \div 2] % 16) + 1]]

\* bytes.fromhex(): whitespace between byte pairs is skipped; anything else
\* that is not a pair of hex digits raises ValueError
RECURSIVE FromHexOKSpaced(_)
FromHexOKSpaced(s) ==
    IF s = <<>> THEN TRUE
    ELSE IF Head(s) = " " THEN FromHexOKSpaced(Tail(s))
    ELSE /\ Len(s) >= 2
         /\ IsHexDigit(s[1])
         /\ IsHexDigit(s[2])
         /\ FromHexOKSpaced(SubSeq(s, 3, Len(s)))

FromHexOK(s) ==
    IF \A i \in 1..Len(s) : s[i] # " "
    THEN Len(s) % 2 = 0 /\ \A i \in 1..Len(s) : IsHexDigit(s[i])
    ELSE FromHexOKSpaced(s)

RECURSIVE FromHexSpaced(_)
FromHexSpaced(s) ==
    IF s = <<>> THEN <<>>
    ELSE IF Head(s) = " " THEN FromHexSpaced(Tail(s))
    ELSE <<HexVal(s[1]) * 16 + HexVal(s[2])>> \o FromHexSpaced(SubSeq(s, 3, Len(s)))

FromHex(s) ==
    IF \A i \in 1..Len(s) : s[i] # " "
    THEN [k \in 1..(Len(s) \div 2) |-> HexVal(s[2 * k - 1]) * 16 + HexVal(s[2 * k])]
    ELSE FromHexSpaced(s)

(***************************************************************************)
(* The authority's replies.  A reply is an HTTP status and a body; the     *)
(* body is invalid JSON or a JSON object, of which the keys the client     *)
(* reads are kept.                                                         *)
(***************************************************************************)
SessionIds == {"s1", "s2"}
SidFields == {Absent, Null, Str("")} \cup {Str(s) : s \in SessionIds}

Cmd1 == Obj([frame |-> Str(<<"0", "A", "0", "B">>), timeout |-> Absent])
Cmd2 == Obj([frame |-> Str(<<"f", "f", " ", "0", "1">>), timeout |-> Num(2)])
CmdNoFrame == Obj([frame |-> Absent, timeout |-> Absent])
CmdBadHex == Obj([frame |-> Str(<<"0", "g">>), timeout |-> Absent])

EmptyMap == [issue_id |-> Absent, idi |-> Absent,
             issue_parameter |-> Absent, pmi |-> Absent]
\* the texts of a result are sequences of characters, as the hex strings are
Id1 == <<"0","1","0","2","0","3","0","4","0","5","0","6","0","7","0","a">>
Id2 == <<"1","1","1","2","1","3","1","4","1","5","1","6","1","7","1","B">>
Result1 == Obj([EmptyMap EXCEPT !.issue_id = Str(Id1),
                                !.issue_parameter = Str(<<"a", "b", "C", "D">>)])
Result2 == Obj([EmptyMap EXCEPT !.idi = Str(Id2),
                                !.pmi = Str(<<"E", "F", "0", "1">>)])
\* an issue identifier that is not hex, and one of fewer than 8 bytes
ResultBadHex == Obj([Result1[2] EXCEPT !.issue_id = Str(<<"0", "g">>)])
ResultShortId == Obj([Result1[2] EXCEPT !.issue_id = Str(<<"0", "1">>)])

Err(code, message) == Obj([code |-> code, message |-> message])

Reply(status, error, step, cmd, result, response, sid) ==
    [status |-> status, valid |-> TRUE, error |-> error, step |-> step,
     command |-> cmd, result |-> result, response |-> response,
     session_id |-> sid]

EmptyBody == Reply(200, Absent, Absent, Absent, Absent, Absent, Absent)
InvalidJson(status) == [EmptyBody EXCEPT !.status = status, !.valid = FALSE]

AuthStepReplies ==
    {Reply(200, Absent, Str("auth1"), Cmd1, Absent, Absent, sid) : sid \in SidFields}
    \cup {Reply(200, Absent, Str("auth2"), Cmd2, Absent, Absent, sid) : sid \in SidFields}
BadCommandReplies ==
    {Reply(200, Absent, Str("auth1"), c, Absent, Absent, Absent) :
        c \in {Absent, CmdNoFrame, CmdBadHex}}
CompleteReplies ==
    {Reply(200, Absent, Str("complete"), Absent, res, Absent, sid) :
        res \in {Absent, Result1, Result2}, sid \in {Absent, Str("s2")}}
OtherStepReplies ==
    {EmptyBody, Reply(200, Absent, Str("other"), Cmd1, Absent, Absent, Str("s1"))}
ExchangeFirstReplies ==
    {Reply(200, Absent, Absent, Cmd1, Absent, Absent, sid) : sid \in {Absent, Str("s1")}}
ExchangeFinalReplies ==
    {Reply(200, Absent, Absent, Absent, Absent, Str(h), sid) :
        h \in {<<"0", "0", "F", "f">>, <<"0", "1">>, <<"x">>},
        sid \in {Absent, Str("s1")}}
ErrorReplies ==
    {Reply(st, e, Absent, Absent, Absent, Absent, Absent) :
        st \in {200, 400},
        e \in {Err(Num(0), Str("m")), Err(Num(420), Absent), Err(Null, Str("m")),
               Err(Absent, Str("m")), Err(Absent, Absent)}}
    \cup {Reply(st, Err(Absent, Str("m")), Str("auth1"), Cmd1, Absent, Absent, Str("s2")) :
             st \in {200, 400}}
HttpErrorReplies ==
    {InvalidJson(500),
     Reply(500, Absent, Str("complete"), Absent, Result1, Absent, Str("s2"))}

Replies ==
    AuthStepReplies \cup BadCommandReplies \cup CompleteReplies
    \cup OtherStepReplies \cup ExchangeFirstReplies \cup ExchangeFinalReplies
    \cup ErrorReplies \cup HttpErrorReplies \cup {InvalidJson(200)}

\* what the card answers, as bytes
CardResponses == {<<255>>, <<1, 171>>}

\* the cards: tag.idm and tag.pmm
Tag1 == [idm |-> <<1, 16>>, pmm |-> <<171>>]
Tag2 == [idm |-> <<2, 32>>, pmm |-> <<205>>]
Tags == {Tag1, Tag2}
NoTag == [idm |-> <<>>, pmm |-> <<>>]

\* the arguments encryption_exchange is called with
ExchangeArgs ==
    {[payload |-> <<1, 128, 0>>, timeout |-> Null],
     [payload |-> <<2, 132, 0, 132, 1>>, timeout |-> Num(3)]}

(***************************************************************************)
(* How an operation ends.                                                  *)
(***************************************************************************)
NoRet ==
    [outcome |-> "none", exc |-> "-", msg |-> "-", code |-> Absent,
     text |-> Absent, result |-> Absent, data |-> <<>>]
Raise(exc, msg, code, text) ==
    [NoRet EXCEPT !.outcome = "raise", !.exc = exc, !.msg = msg,
                  !.code = code, !.text = text]
ReturnResult(result) == [NoRet EXCEPT !.outcome = "return", !.result = result]
ReturnData(data) == [NoRet EXCEPT !.outcome = "return", !.data = data]

(***************************************************************************)
(* _KeepAliveHTTPClient.post and FelicaRemoteClient._post on one reply.    *)
(***************************************************************************)
DefaultReason == Str("reason")      \* response.reason
NoErrorObject == [code |-> Absent, message |-> Absent]

\* _extract_error_from_payload(data, default_reason) -> (message, errno)
extract_error_from_payload(r) ==
    IF ~r.valid THEN [message |-> DefaultReason, errno |-> Null]
    ELSE LET error == IF r.error = Absent THEN NoErrorObject ELSE r.error[2]
         IN  [message |-> IF error.message = Absent THEN DefaultReason
                          ELSE error.message,
              errno |-> Get(error.code)]

\* post(): what follows a reply that was read (NoRet: `return data`)
http_post_reply(r) ==
    IF r.status >= HttpErrorStatus
    THEN LET e == extract_error_from_payload(r)
         IN  IF e.errno # Null
             THEN Raise("Type3TagCommandError", "card error", e.errno, Absent)
             ELSE Raise("FelicaRemoteClientError", "http status", Absent, e.message)
    ELSE NoRet

\* _post() that never looks at error.code
decode_reply_ignores_code(r) ==
    IF ~r.valid
    THEN Raise("FelicaRemoteClientError", "server returned invalid JSON", Absent, Absent)
    ELSE IF r.error # Absent
    THEN Raise("FelicaRemoteClientError", "server error",  Absent,
               IF r.error[2].message = Absent
               THEN Str("server reported an error")
               ELSE r.error[2].message)
    ELSE NoRet

\* _post(): json.loads and the check of the "error" key (NoRet: `return decoded`)
decode_reply(r) ==
    IF ~r.valid
    THEN Raise("FelicaRemoteClientError", "server returned invalid JSON", Absent, Absent)
    ELSE IF r.error # Absent
    THEN LET error_info == r.error[2]
             errno == Get(error_info.code)
         IN  IF errno # Null
             THEN Raise("Type3TagCommandError", "card error", errno, Absent)
             ELSE Raise("FelicaRemoteClientError", "server error",  Absent,
                        IF error_info.message = Absent
                        THEN Str("server reported an error")
                        ELSE error_info.message)
    ELSE NoRet

\* _post() on a reply: the exception raised, or NoRet when the decoded
\* response is returned
post_reply(r) ==
    LET h == http_post_reply(r)
    IN  IF h.outcome = "raise" THEN h ELSE decode_reply(r)

\* _update_session_id that adopts an identifier only while none is stored
update_session_id_set_once(sid, r) ==
    LET s == Get(r.session_id)
    IN  IF Truthy(s) /\ sid = Null THEN s ELSE sid

\* _update_session_id(response): the new value of self.session_id
update_session_id(sid, r) ==
    LET s == Get(r.session_id)
    IN  IF Truthy(s) THEN s ELSE sid

NoCommand == [frame |-> <<>>, timeout |-> Null]

\* _extract_command that hands an empty frame on when the envelope is unusable
extract_command_empty_frame(r) ==
    IF r.command = Absent \/ r.command[2].frame = Absent
       \/ ~FromHexOK(r.command[2].frame[2])
    THEN [err |-> NoRet, env |-> NoCommand]
    ELSE [err |-> NoRet,
          env |-> [frame |-> FromHex(r.command[2].frame[2]),
                   timeout |-> Get(r.command[2].timeout)]]

\* _extract_command(response): the exception raised, or the envelope
extract_command(r) ==
    IF r.command = Absent \/ r.command[2].frame = Absent
    THEN [err |-> Raise("FelicaRemoteClientError", "missing command data", Absent, Absent),
          env |-> NoCommand]
    ELSE LET command_info == r.command[2]
             frame_hex == command_info.frame[2]
         IN  IF ~FromHexOK(frame_hex)
             THEN [err |-> Raise("FelicaRemoteClientError",
                                 "invalid command frame encoding", Absent, Absent),
                   env |-> NoCommand]
             ELSE [err |-> NoRet,
                   env |-> [frame |-> FromHex(frame_hex),
                            timeout |-> Get(command_info.timeout)]]

\* _exchange_with_card: the timeout handed to tag.clf.exchange
exchange_timeout(cmd) ==
    IF cmd.timeout # Null THEN cmd.timeout[2] ELSE default_exchange_timeout

(***************************************************************************)
(* The two protocols on one decoded response: where the calling thread     *)
(* goes next ("card": exchange the envelope; "idle": the operation ended). *)
(***************************************************************************)
Ended(r, auth, sid) ==
    [pc |-> "idle", ret |-> r, authenticated |-> auth, session_id |-> sid,
     command |-> NoCommand]
ToCard(env, auth, sid) ==
    [pc |-> "card", ret |-> NoRet, authenticated |-> auth, session_id |-> sid,
     command |-> env]

AuthSteps == {Str("auth1"), Str("auth2")}

\* mutual_authentication that takes any step other than auth1/auth2 as the end
mutual_authentication_step_lenient(r, auth, sid) ==
    LET sid2 == update_session_id(sid, r)
        step == Get(r.step)
    IN  IF step \in AuthSteps
        THEN LET c == extract_command(r)
             IN  IF c.err.outcome = "raise" THEN Ended(c.err, auth, sid2)
                 ELSE ToCard(c.env, auth, sid2)
        ELSE Ended(ReturnResult(IF r.result = Absent THEN Obj(EmptyMap) ELSE r.result),
                   TRUE, sid2)

\* mutual_authentication with `self.authenticated = True` left out
mutual_authentication_step_flag_unset(r, auth, sid) ==
    LET sid2 == update_session_id(sid, r)
        step == Get(r.step)
    IN  IF step \in AuthSteps
        THEN LET c == extract_command(r)
             IN  IF c.err.outcome = "raise" THEN Ended(c.err, auth, sid2)
                 ELSE ToCard(c.env, auth, sid2)
        ELSE IF step = Str("complete")
        THEN Ended(ReturnResult(IF r.result = Absent THEN Obj(EmptyMap) ELSE r.result),
                   auth, sid2)
        ELSE Ended(Raise("FelicaRemoteClientError", "unexpected server response",
                         Absent, Absent), auth, sid2)

\* mutual_authentication that sets the flag as soon as a step is accepted
mutual_authentication_step_early_flag(r, auth, sid) ==
    LET sid2 == update_session_id(sid, r)
        step == Get(r.step)
    IN  IF step \in AuthSteps
        THEN LET c == extract_command(r)
             IN  IF c.err.outcome = "raise" THEN Ended(c.err, auth, sid2)
                 ELSE ToCard(c.env, TRUE, sid2)
        ELSE IF step = Str("complete")
        THEN Ended(ReturnResult(IF r.result = Absent THEN Obj(EmptyMap) ELSE r.result),
                   TRUE, sid2)
        ELSE Ended(Raise("FelicaRemoteClientError", "unexpected server response",
                         Absent, Absent), auth, sid2)

\* mutual_authentication: _update_session_id and one turn of `while True`
\* mutual_authentication that reads the result as response["result"]
mutual_authentication_step_requires_result(r, auth, sid) ==
    LET sid2 == update_session_id(sid, r)
        step == Get(r.step)
    IN  IF step \in AuthSteps
        THEN LET c == extract_command(r)
             IN  IF c.err.outcome = "raise" THEN Ended(c.err, auth, sid2)
                 ELSE ToCard(c.env, auth, sid2)
        ELSE IF step = Str("complete") /\ r.result # Absent
        THEN Ended(ReturnResult(r.result), TRUE, sid2)
        ELSE Ended(Raise("FelicaRemoteClientError", "unexpected server response",
                         Absent, Absent), auth, sid2)

mutual_authentication_step(r, auth, sid) ==
    LET sid2 == update_session_id(sid, r)
        step == Get(r.step)
    IN  IF step \in AuthSteps
        THEN LET c == extract_command(r)
             IN  IF c.err.outcome = "raise" THEN Ended(c.err, auth, sid2)
                 ELSE ToCard(c.env, auth, sid2)
        ELSE IF step = Str("complete")
        THEN Ended(ReturnResult(IF r.result = Absent THEN Obj(EmptyMap) ELSE r.result),
                   TRUE, sid2)
        ELSE Ended(Raise("FelicaRemoteClientError", "unexpected server response",
                         Absent, Absent), auth, sid2)

\* encryption_exchange that clears the flag when it fails
encryption_exchange_step_clears_flag(r, ph, auth, sid) ==
    LET sid2 == update_session_id(sid, r)
    IN  IF ph = "first"
        THEN LET c == extract_command(r)
             IN  IF c.err.outcome = "raise" THEN Ended(c.err, FALSE, sid2)
                 ELSE ToCard(c.env, auth, sid2)
        ELSE IF r.response = Absent
        THEN Ended(Raise("FelicaRemoteClientError", "unexpected server response",
                         Absent, Absent), FALSE, sid2)
        ELSE IF ~FromHexOK(r.response[2])
        THEN Ended(Raise("ValueError", "fromhex", Absent, Absent), FALSE, sid2)
        ELSE Ended(ReturnData(FromHex(r.response[2])), auth, sid2)

\* encryption_exchange that, on a final response without "response", goes
\* back to the card and posts again
encryption_exchange_step_polls(r, ph, auth, sid) ==
    LET sid2 == update_session_id(sid, r)
    IN  IF ph = "first"
        THEN LET c == extract_command(r)
             IN  IF c.err.outcome = "raise" THEN Ended(c.err, auth, sid2)
                 ELSE ToCard(c.env, auth, sid2)
        ELSE IF r.response = Absent
        THEN ToCard(NoCommand, auth, sid2)
        ELSE IF ~FromHexOK(r.response[2])
        THEN Ended(Raise("ValueError", "fromhex", Absent, Absent), auth, sid2)
        ELSE Ended(ReturnData(FromHex(r.response[2])), auth, sid2)

\* encryption_exchange reading the field as final_response.get("response", "")
encryption_exchange_step_default_empty(r, ph, auth, sid) ==
    LET sid2 == update_session_id(sid, r)
    IN  IF ph = "first"
        THEN LET c == extract_command(r)
             IN  IF c.err.outcome = "raise" THEN Ended(c.err, auth, sid2)
                 ELSE ToCard(c.env, auth, sid2)
        ELSE IF r.response = Absent
        THEN Ended(ReturnData(<<>>), auth, sid2)
        ELSE IF ~FromHexOK(r.response[2])
        THEN Ended(Raise("ValueError", "fromhex", Absent, Absent), auth, sid2)
        ELSE Ended(ReturnData(FromHex(r.response[2])), auth, sid2)

\* encryption_exchange after its first response (ph = "first") and after its
\* final response (ph = "final")
encryption_exchange_step(r, ph, auth, sid) ==
    LET sid2 == update_session_id(sid, r)
    IN  IF ph = "first"
        THEN LET c == extract_command(r)
             IN  IF c.err.outcome = "raise" THEN Ended(c.err, auth, sid2)
                 ELSE ToCard(c.env, auth, sid2)
        ELSE IF r.response = Absent
        THEN Ended(Raise("FelicaRemoteClientError", "unexpected server response",
                         Absent, Absent), auth, sid2)
        ELSE IF ~FromHexOK(r.response[2])
        THEN Ended(Raise("ValueError", "fromhex", Absent, Absent), auth, sid2)
        ELSE Ended(ReturnData(FromHex(r.response[2])), auth, sid2)

(***************************************************************************)
(* Requests and the event log.                                             *)
(***************************************************************************)
MA_PATH == "/mutual-authentication"
EE_PATH == "/encryption-exchange"

NoReq ==
    [path |-> "-", kind |-> "-", session_id |-> Null, idm |-> Absent,
     pmm |-> Absent, cmd_code |-> Absent, payload |-> Absent,
     timeout |-> Absent, card_response |-> Absent]

\* {session_id, idm, pmm, system_code, areas, services}
InitRequest(sid, t) ==
    [NoReq EXCEPT !.path = MA_PATH, !.kind = "init", !.session_id = sid,
                  !.idm = Str(ToHex(t.idm)), !.pmm = Str(ToHex(t.pmm))]

\* {session_id, cmd_code, payload, timeout?}: the timeout key only when given
CommandRequest(sid, cmd_code, payload, timeout) ==
    [NoReq EXCEPT !.path = EE_PATH, !.kind = "command", !.session_id = sid,
                  !.cmd_code = Num(cmd_code), !.payload = Str(ToHex(payload)),
                  !.timeout = IF timeout # Null THEN timeout ELSE Absent]

\* {session_id, card_response}
CardResponseRequest(path, sid, card_response) ==
    [NoReq EXCEPT !.path = path, !.kind = "card_response", !.session_id = sid,
                  !.card_response = Str(ToHex(card_response))]

PostEntry(r) == [ev |-> "post", path |-> r.path, kind |-> r.kind]
CardEntry == [ev |-> "card", path |-> "-", kind |-> "-"]

\* one more attempt of the post() in progress: on a new connection (fresh)
\* or the kept one, ending "unsent" (failed before the request was written),
\* "lost" (failed while reading the response) or "answered"
LogAttempt(out) == Append(attempts, [fresh |-> connection = "none", out |-> out])

NoExchange ==
    [tag |-> NoTag, frame |-> <<>>, timeout |-> 0, ok |-> FALSE, response |-> <<>>]

\* the arguments of a call
NoArgs == [tag |-> NoTag, session_id |-> Null, cmd_code |-> 0, payload |-> <<>>,
           timeout |-> Null]

(***************************************************************************)
(* Initial state: FelicaRemoteClient.__init__.                             *)
(***************************************************************************)
NoRead == [pc |-> "off"]
NoTap == [pc |-> "off"]
NoDecode == [fn |-> "-"]

InitClient ==
    /\ session_id = Null
    /\ authenticated = FALSE
    /\ connection = "none"
    /\ pc = "idle"
    /\ op = "-"
    /\ phase = "-"
    /\ rounds = 0
    /\ req = NoReq
    /\ attempt = 0
    /\ attempts = <<>>
    /\ reply = EmptyBody
    /\ command = NoCommand
    /\ exchanged = NoExchange
    /\ log = <<>>
    /\ ret = NoRet
    /\ nOps = 0
    /\ tag \in Tags
    /\ args = NoArgs

Init ==
    /\ InitClient
    /\ rb = NoRead
    /\ cd = NoTap
    /\ dec = NoDecode

(***************************************************************************)
(* Actions of the client.                                                  *)
(***************************************************************************)
\* mutual_authentication() on a client whose session_id is sid and whose tag
\* is t: up to the first write on the connection
mutual_authentication_call(sid, t) ==
    /\ pc = "idle"
    /\ op' = "mutual_authentication"
    /\ args' = NoArgs
    /\ phase' = "-"
    /\ rounds' = 0
    /\ req' = InitRequest(sid, t)
    /\ attempt' = 0
    /\ attempts' = <<>>
    /\ log' = <<PostEntry(InitRequest(sid, t))>>
    /\ ret' = NoRet
    /\ pc' = "post"
    /\ reply' = EmptyBody
    /\ command' = NoCommand
    /\ exchanged' = NoExchange

MutualAuthentication ==
    /\ nOps < MaxOps
    /\ nOps' = nOps + 1
    /\ mutual_authentication_call(session_id, tag)
    /\ UNCHANGED <<session_id, authenticated, connection, tag, rb, cd, dec>>

\* encryption_exchange without the check of self.authenticated
EncryptionExchange_unchecked(cmd_code, payload, timeout) ==
    /\ pc = "idle"
    /\ nOps < MaxOps
    /\ nOps' = nOps + 1
    /\ op' = "encryption_exchange"
    /\ rounds' = 0
    /\ req' = CommandRequest(session_id, cmd_code, payload, timeout)
    /\ attempt' = 0
    /\ attempts' = <<>>
    /\ log' = <<PostEntry(CommandRequest(session_id, cmd_code, payload, timeout))>>
    /\ ret' = NoRet
    /\ pc' = "post"
    /\ phase' = "first"
    /\ reply' = EmptyBody
    /\ command' = NoCommand
    /\ exchanged' = NoExchange
    /\ UNCHANGED <<session_id, authenticated, connection, rb, cd, dec, tag>>
    /\ args' = [NoArgs EXCEPT !.cmd_code = cmd_code, !.payload = payload,
                               !.timeout = timeout]

\* encryption_exchange(cmd_code, payload, timeout): the precondition, and up
\* to the first write on the connection
encryption_exchange_call(cmd_code, payload, timeout) ==
    /\ pc = "idle"
    /\ op' = "encryption_exchange"
    /\ args' = [NoArgs EXCEPT !.cmd_code = cmd_code, !.payload = payload,
                               !.timeout = timeout]
    /\ rounds' = 0
    /\ IF ~authenticated
       THEN /\ ret' = Raise("FelicaRemoteClientError",
                            "mutual authentication must be completed first",
                            Absent, Absent)
            /\ log' = <<>>
            /\ pc' = "idle"
            /\ phase' = "-"
            /\ req' = NoReq
       ELSE /\ req' = CommandRequest(session_id, cmd_code, payload, timeout)
            /\ log' = <<PostEntry(CommandRequest(session_id, cmd_code, payload, timeout))>>
            /\ ret' = NoRet
            /\ pc' = "post"
            /\ phase' = "first"
    /\ attempt' = 0
    /\ attempts' = <<>>
    /\ reply' = EmptyBody
    /\ command' = NoCommand
    /\ exchanged' = NoExchange
    /\ UNCHANGED <<session_id, authenticated, connection, tag>>

EncryptionExchange(cmd_code, payload, timeout) ==
    /\ nOps < MaxOps
    /\ nOps' = nOps + 1
    /\ encryption_exchange_call(cmd_code, payload, timeout)
    /\ UNCHANGED <<rb, cd, dec>>

\* post() whose except branch leaves the connection open
HttpAttemptFails_keeps_connection(sent) ==
    /\ pc = "post"
    /\ attempts' = LogAttempt(IF sent THEN "lost" ELSE "unsent")
    /\ attempt' = attempt + 1
    /\ IF attempt + 1 < MaxAttempts
       THEN UNCHANGED <<pc, ret>>
       ELSE /\ pc' = "idle"
            /\ ret' = Raise("FelicaRemoteClientError", "failed to reach server",
                            Absent, Absent)
    /\ UNCHANGED <<session_id, authenticated, connection, op, phase, rounds, req,
                   reply, command, exchanged, log, nOps, rb, cd, dec, tag, args>>

\* post() that takes the next turn of its loop only when the request was not
\* written
HttpAttemptFails_retries_unsent_only(sent) ==
    /\ pc = "post"
    /\ attempts' = LogAttempt(IF sent THEN "lost" ELSE "unsent")
    /\ connection' = "none"
    /\ attempt' = attempt + 1
    /\ IF attempt + 1 < MaxAttempts /\ ~sent
       THEN UNCHANGED <<pc, ret>>
       ELSE /\ pc' = "idle"
            /\ ret' = Raise("FelicaRemoteClientError", "failed to reach server",
                            Absent, Absent)
    /\ UNCHANGED <<session_id, authenticated, op, phase, rounds, req, reply,
                   command, exchanged, log, nOps, rb, cd, dec, tag, args>>

\* post(): an attempt that ends in http.client.HTTPException, OSError or
\* socket.timeout, before the request was written (sent = FALSE) or after;
\* close(), and the next turn of the loop or "failed to reach server"
HttpAttemptFails(sent) ==
    /\ pc = "post"
    /\ attempts' = LogAttempt(IF sent THEN "lost" ELSE "unsent")
    /\ connection' = "none"
    /\ attempt' = attempt + 1
    /\ IF attempt + 1 < MaxAttempts
       THEN UNCHANGED <<pc, ret>>
       ELSE /\ pc' = "idle"
            /\ ret' = Raise("FelicaRemoteClientError", "failed to reach server",
                            Absent, Absent)
    /\ UNCHANGED <<session_id, authenticated, op, phase, rounds, req, reply,
                   command, exchanged, log, nOps, rb, cd, dec, tag, args>>

\* post() that takes the next turn of its loop on an error reply too
HttpReply_retries_errors(r) ==
    /\ pc = "post"
    /\ (op = "mutual_authentication" /\ r \in AuthStepReplies) => rounds < MaxRounds
    /\ attempts' = LogAttempt("answered")
    /\ connection' = "open"
    /\ reply' = r
    /\ LET e == post_reply(r)
           nxt == IF e.outcome = "raise" THEN Ended(e, authenticated, session_id)
                  ELSE IF op = "mutual_authentication"
                  THEN mutual_authentication_step(r, authenticated, session_id)
                  ELSE encryption_exchange_step(r, phase, authenticated, session_id)
           again == e.outcome = "raise" /\ attempt + 1 < MaxAttempts
       IN  /\ pc' = IF again THEN "post" ELSE nxt.pc
           /\ ret' = IF again THEN ret ELSE nxt.ret
           /\ attempt' = IF again THEN attempt + 1 ELSE attempt
           /\ authenticated' = nxt.authenticated
           /\ session_id' = nxt.session_id
           /\ command' = IF nxt.pc = "card" THEN nxt.command ELSE command
           /\ rounds' = IF nxt.pc = "card" /\ op = "mutual_authentication"
                        THEN rounds + 1 ELSE rounds
    /\ UNCHANGED <<op, phase, req, exchanged, log, nOps, rb, cd, dec, tag, args>>

\* _post that adopts the identifier of a reply before the error check
HttpReply_adopts_from_errors(r) ==
    /\ pc = "post"
    /\ (op = "mutual_authentication" /\ r \in AuthStepReplies) => rounds < MaxRounds
    /\ attempts' = LogAttempt("answered")
    /\ connection' = "open"
    /\ reply' = r
    /\ LET e == post_reply(r)
           nxt == IF e.outcome = "raise"
                  THEN Ended(e, authenticated, update_session_id(session_id, r))
                  ELSE IF op = "mutual_authentication"
                  THEN mutual_authentication_step(r, authenticated, session_id)
                  ELSE encryption_exchange_step(r, phase, authenticated, session_id)
       IN  /\ pc' = nxt.pc
           /\ ret' = nxt.ret
           /\ authenticated' = nxt.authenticated
           /\ session_id' = nxt.session_id
           /\ command' = IF nxt.pc = "card" THEN nxt.command ELSE command
           /\ rounds' = IF nxt.pc = "card" /\ op = "mutual_authentication"
                        THEN rounds + 1 ELSE rounds
    /\ UNCHANGED <<op, phase, req, attempt, exchanged, log, nOps, rb, cd, dec, tag, args>>

\* mutual_authentication as the state machine auth1, auth2, complete: a step
\* out of its turn is an unexpected response
HttpReply_enforces_order(r) ==
    /\ pc = "post"
    /\ (op = "mutual_authentication" /\ r \in AuthStepReplies) => rounds < MaxRounds
    /\ attempts' = LogAttempt("answered")
    /\ connection' = "open"
    /\ reply' = r
    /\ LET e == post_reply(r)
           turn == IF rounds = 0 THEN Str("auth1")
                   ELSE IF rounds = 1 THEN Str("auth2") ELSE Str("complete")
           nxt == IF e.outcome = "raise" THEN Ended(e, authenticated, session_id)
                  ELSE IF op = "mutual_authentication" /\ Get(r.step) # turn
                  THEN Ended(Raise("FelicaRemoteClientError", "unexpected server response",
                                   Absent, Absent),
                             authenticated, update_session_id(session_id, r))
                  ELSE IF op = "mutual_authentication"
                  THEN mutual_authentication_step(r, authenticated, session_id)
                  ELSE encryption_exchange_step(r, phase, authenticated, session_id)
       IN  /\ pc' = nxt.pc
           /\ ret' = nxt.ret
           /\ authenticated' = nxt.authenticated
           /\ session_id' = nxt.session_id
           /\ command' = IF nxt.pc = "card" THEN nxt.command ELSE command
           /\ rounds' = IF nxt.pc = "card" /\ op = "mutual_authentication"
                        THEN rounds + 1 ELSE rounds
    /\ UNCHANGED <<op, phase, req, attempt, exchanged, log, nOps, rb, cd, dec, tag, args>>

\* post(): an attempt that reads a reply; then _post and the protocol's
\* handling of the response, up to the next blocking call
HttpReply(r) ==
    /\ pc = "post"
    /\ (op = "mutual_authentication" /\ r \in AuthStepReplies) => rounds < MaxRounds
    /\ attempts' = LogAttempt("answered")
    /\ connection' = "open"
    /\ reply' = r
    /\ LET e == post_reply(r)
           nxt == IF e.outcome = "raise" THEN Ended(e, authenticated, session_id)
                  ELSE IF op = "mutual_authentication"
                  THEN mutual_authentication_step(r, authenticated, session_id)
                  ELSE encryption_exchange_step(r, phase, authenticated, session_id)
       IN  /\ pc' = nxt.pc
           /\ ret' = nxt.ret
           /\ authenticated' = nxt.authenticated
           /\ session_id' = nxt.session_id
           /\ command' = IF nxt.pc = "card" THEN nxt.command ELSE command
           /\ rounds' = IF nxt.pc = "card" /\ op = "mutual_authentication"
                        THEN rounds + 1 ELSE rounds
    /\ UNCHANGED <<op, phase, req, attempt, exchanged, log, nOps, rb, cd, dec, tag, args>>

\* _exchange_with_card with the follow-up request always posted to
\* /mutual-authentication
CardExchange_wrong_path(card_response) ==
    /\ pc = "card"
    /\ exchanged' = [tag |-> tag, frame |-> command.frame, timeout |-> exchange_timeout(command),
                     ok |-> TRUE, response |-> card_response]
    /\ LET next_req == CardResponseRequest(MA_PATH, session_id, card_response)
       IN  /\ req' = next_req
           /\ log' = log \o <<CardEntry, PostEntry(next_req)>>
    /\ attempt' = 0
    /\ attempts' = <<>>
    /\ phase' = IF op = "encryption_exchange" THEN "final" ELSE phase
    /\ pc' = "post"
    /\ UNCHANGED <<session_id, authenticated, connection, op, rounds, reply,
                   command, ret, nOps, rb, cd, dec, tag, args>>

\* _exchange_with_card with the follow-up request built from the identifier
\* the previous request carried
CardExchange_stale_session(card_response) ==
    /\ pc = "card"
    /\ exchanged' = [tag |-> tag, frame |-> command.frame, timeout |-> exchange_timeout(command),
                     ok |-> TRUE, response |-> card_response]
    /\ LET path == IF op = "mutual_authentication" THEN MA_PATH ELSE EE_PATH
           next_req == CardResponseRequest(path, req.session_id, card_response)
       IN  /\ req' = next_req
           /\ log' = log \o <<CardEntry, PostEntry(next_req)>>
    /\ attempt' = 0
    /\ attempts' = <<>>
    /\ phase' = IF op = "encryption_exchange" THEN "final" ELSE phase
    /\ pc' = "post"
    /\ UNCHANGED <<session_id, authenticated, connection, op, rounds, reply,
                   command, ret, nOps, rb, cd, dec, tag, args>>

\* _exchange_with_card: tag.clf.exchange answers; the follow-up request is
\* built from the card's response and the session_id of this moment
CardExchange(card_response) ==
    /\ pc = "card"
    /\ exchanged' = [tag |-> tag, frame |-> command.frame, timeout |-> exchange_timeout(command),
                     ok |-> TRUE, response |-> card_response]
    /\ LET path == IF op = "mutual_authentication" THEN MA_PATH ELSE EE_PATH
           next_req == CardResponseRequest(path, session_id, card_response)
       IN  /\ req' = next_req
           /\ log' = log \o <<CardEntry, PostEntry(next_req)>>
    /\ attempt' = 0
    /\ attempts' = <<>>
    /\ phase' = IF op = "encryption_exchange" THEN "final" ELSE phase
    /\ pc' = "post"
    /\ UNCHANGED <<session_id, authenticated, connection, op, rounds, reply,
                   command, ret, nOps, rb, cd, dec, tag, args>>

\* _exchange_with_card: tag.clf.exchange raises (timeout, I/O error); the
\* exception leaves the operation
CardExchangeFails ==
    /\ pc = "card"
    /\ exchanged' = [tag |-> tag, frame |-> command.frame, timeout |-> exchange_timeout(command),
                     ok |-> FALSE, response |-> <<>>]
    /\ log' = Append(log, CardEntry)
    /\ pc' = "idle"
    /\ ret' = Raise("CardTransportError", "exchange", Absent, Absent)
    /\ UNCHANGED <<session_id, authenticated, connection, op, phase, rounds, req,
                   attempt, attempts, reply, command, nOps, rb, cd, dec, tag, args>>

\* reset that adopts the tag and the identifier and leaves the flag as it is
Reset_keeps_authenticated(new_tag, sid) ==
    /\ pc = "idle"
    /\ nOps < MaxOps
    /\ nOps' = nOps + 1
    /\ op' = "reset"
    /\ args' = [NoArgs EXCEPT !.tag = new_tag, !.session_id = sid]
    /\ tag' = new_tag
    /\ session_id' = sid
    /\ log' = <<>>
    /\ ret' = NoRet
    /\ phase' = "-"
    /\ rounds' = 0
    /\ req' = NoReq
    /\ attempt' = 0
    /\ attempts' = <<>>
    /\ reply' = EmptyBody
    /\ command' = NoCommand
    /\ exchanged' = NoExchange
    /\ UNCHANGED <<authenticated, connection, pc, rb, cd, dec>>

\* reset(tag, session_id)
Reset(new_tag, sid) ==
    /\ pc = "idle"
    /\ nOps < MaxOps
    /\ nOps' = nOps + 1
    /\ op' = "reset"
    /\ args' = [NoArgs EXCEPT !.tag = new_tag, !.session_id = sid]
    /\ tag' = new_tag
    /\ session_id' = sid
    /\ authenticated' = FALSE
    /\ log' = <<>>
    /\ ret' = NoRet
    /\ phase' = "-"
    /\ rounds' = 0
    /\ req' = NoReq
    /\ attempt' = 0
    /\ attempts' = <<>>
    /\ reply' = EmptyBody
    /\ command' = NoCommand
    /\ exchanged' = NoExchange
    /\ UNCHANGED <<connection, pc, rb, cd, dec>>

Next ==
    \/ MutualAuthentication
    \/ \E a \in ExchangeArgs :
           EncryptionExchange(READ_COMMAND_CODE, a.payload, a.timeout)
    \/ \E sent \in BOOLEAN : HttpAttemptFails(sent)
    \/ \E r \in Replies : HttpReply(r)
    \/ \E card_response \in CardResponses : CardExchange(card_response)
    \/ CardExchangeFails
    \/ \E t \in Tags, sid \in {Null, Str("s1")} : Reset(t, sid)

Spec == Init /\ [][Next]_vars

(***************************************************************************)
(* RemoteCardReader (cli.py and gui.py hold the same code).                *)
(***************************************************************************)
Min(a, b) == IF a < b THEN a ELSE b

\* x | y and x & y on non-negative integers
RECURSIVE BitOr(_, _)
BitOr(x, y) ==
    IF x = 0 THEN y
    ELSE IF y = 0 THEN x
    ELSE (IF x % 2 = 1 \/ y % 2 = 1 THEN 1 ELSE 0) + 2 * BitOr(x \div 2, y \div 2)

RECURSIVE BitAnd(_, _)
BitAnd(x, y) ==
    IF x = 0 \/ y = 0 THEN 0
    ELSE (IF x % 2 = 1 /\ y % 2 = 1 THEN 1 ELSE 0) + 2 * BitAnd(x \div 2, y \div 2)

RECURSIVE Flatten(_)
Flatten(seqs) == IF seqs = <<>> THEN <<>> ELSE Head(seqs) \o Flatten(Tail(seqs))

ReadNoRet == [outcome |-> "none", exc |-> "-", msg |-> "-", code |-> 0, value |-> <<>>]
ReadRaise(exc, msg, code) ==
    [ReadNoRet EXCEPT !.outcome = "raise", !.exc = exc, !.msg = msg, !.code = code]
ReadReturn(blocks) == [ReadNoRet EXCEPT !.outcome = "return", !.value = blocks]

\* _elements_to_bytes that masks the block number instead of checking it
RECURSIVE elements_to_bytes_masks_block(_)
elements_to_bytes_masks_block(elements) ==
    IF elements = <<>> THEN [err |-> ReadNoRet, bytes |-> <<>>]
    ELSE LET service_index == Head(elements)[1]
             block_number == Head(elements)[2]
         IN  IF ~(0 <= service_index /\ service_index < 16)
             THEN [err |-> ReadRaise("ValueError", "service index", 0), bytes |-> <<>>]
             ELSE LET rest == elements_to_bytes_masks_block(Tail(elements))
                  IN  IF rest.err.outcome = "raise" THEN rest
                      ELSE [err |-> ReadNoRet,
                            bytes |-> <<BitOr(128, service_index),
                                        block_number % 256>> \o rest.bytes]

\* _elements_to_bytes that keeps three bits of the service index
RECURSIVE elements_to_bytes_three_bit_service(_)
elements_to_bytes_three_bit_service(elements) ==
    IF elements = <<>> THEN [err |-> ReadNoRet, bytes |-> <<>>]
    ELSE LET service_index == Head(elements)[1]
             block_number == Head(elements)[2]
         IN  IF ~(0 <= service_index /\ service_index < 16)
             THEN [err |-> ReadRaise("ValueError", "service index", 0), bytes |-> <<>>]
             ELSE IF ~(0 <= block_number /\ block_number < 256)
             THEN [err |-> ReadRaise("ValueError", "block number", 0), bytes |-> <<>>]
             ELSE LET rest == elements_to_bytes_three_bit_service(Tail(elements))
                  IN  IF rest.err.outcome = "raise" THEN rest
                      ELSE [err |-> ReadNoRet,
                            bytes |-> <<BitOr(128, service_index % 8),
                                        BitAnd(block_number, 255)>> \o rest.bytes]

\* _elements_to_bytes(elements): ValueError on the first element out of range
RECURSIVE elements_to_bytes(_)
elements_to_bytes(elements) ==
    IF elements = <<>> THEN [err |-> ReadNoRet, bytes |-> <<>>]
    ELSE LET service_index == Head(elements)[1]
             block_number == Head(elements)[2]
         IN  IF ~(0 <= service_index /\ service_index < 16)
             THEN [err |-> ReadRaise("ValueError", "service index", 0), bytes |-> <<>>]
             ELSE IF ~(0 <= block_number /\ block_number < 256)
             THEN [err |-> ReadRaise("ValueError", "block number", 0), bytes |-> <<>>]
             ELSE LET rest == elements_to_bytes(Tail(elements))
                  IN  IF rest.err.outcome = "raise" THEN rest
                      ELSE [err |-> ReadNoRet,
                            bytes |-> <<BitOr(128, service_index),
                                        BitAnd(block_number, 255)>> \o rest.bytes]

\* index_list[chunk_start : chunk_start + MAX_BLOCKS_PER_REQUEST], chunk_start from 0
chunk_with_one_less(index_list, chunk_start) ==
    SubSeq(index_list, chunk_start + 1,
           Min(chunk_start + MAX_BLOCKS_PER_REQUEST - 1, Len(index_list)))

chunk_of(index_list, chunk_start) ==
    SubSeq(index_list, chunk_start + 1,
           Min(chunk_start + MAX_BLOCKS_PER_REQUEST, Len(index_list)))

\* _read_elements that compares the block count before it looks at the status
read_elements_response_count_first(expected_blocks, response) ==
    IF Len(response) < 3
    THEN ReadRaise("RuntimeError", "invalid response", 0)
    ELSE IF response[3] # expected_blocks
    THEN ReadRaise("RuntimeError", "block count", 0)
    ELSE IF response[1] # 0
    THEN ReadRaise("RuntimeError", "card error", response[1] * 256 + response[2])
    ELSE LET block_payload == SubSeq(response, 4, Len(response))
             expected_length == expected_blocks * DATA_BLOCK_SIZE
         IN  IF Len(block_payload) < expected_length
             THEN ReadRaise("RuntimeError", "block length", 0)
             ELSE ReadReturn([i \in 1..expected_blocks |->
                                SubSeq(block_payload, (i - 1) * DATA_BLOCK_SIZE + 1,
                                       i * DATA_BLOCK_SIZE)])

\* _read_elements that accepts only a payload of exactly the expected length
read_elements_response_exact_length(expected_blocks, response) ==
    IF Len(response) < 3
    THEN ReadRaise("RuntimeError", "invalid response", 0)
    ELSE IF response[1] # 0
    THEN ReadRaise("RuntimeError", "card error", response[1] * 256 + response[2])
    ELSE IF response[3] # expected_blocks
    THEN ReadRaise("RuntimeError", "block count", 0)
    ELSE LET block_payload == SubSeq(response, 4, Len(response))
             expected_length == expected_blocks * DATA_BLOCK_SIZE
         IN  IF Len(block_payload) # expected_length
             THEN ReadRaise("RuntimeError", "block length", 0)
             ELSE ReadReturn([i \in 1..expected_blocks |->
                                SubSeq(block_payload, (i - 1) * DATA_BLOCK_SIZE + 1,
                                       i * DATA_BLOCK_SIZE)])

\* _read_elements that slices as many blocks as the response declares
read_elements_response_trusts_count(expected_blocks, response) ==
    IF Len(response) < 3
    THEN ReadRaise("RuntimeError", "invalid response", 0)
    ELSE IF response[1] # 0
    THEN ReadRaise("RuntimeError", "card error", response[1] * 256 + response[2])
    ELSE LET block_payload == SubSeq(response, 4, Len(response))
             expected_length == response[3] * DATA_BLOCK_SIZE
         IN  IF Len(block_payload) < expected_length
             THEN ReadRaise("RuntimeError", "block length", 0)
             ELSE ReadReturn([i \in 1..response[3] |->
                                SubSeq(block_payload, (i - 1) * DATA_BLOCK_SIZE + 1,
                                       i * DATA_BLOCK_SIZE)])

\* _read_elements after encryption_exchange returned `response`: the checks
\* of the response and its slicing into blocks
read_elements_response(expected_blocks, response) ==
    IF Len(response) < 3
    THEN ReadRaise("RuntimeError", "invalid response", 0)
    ELSE IF response[1] # 0
    THEN ReadRaise("RuntimeError", "card error", response[1] * 256 + response[2])
    ELSE IF response[3] # expected_blocks
    THEN ReadRaise("RuntimeError", "block count", 0)
    ELSE LET block_payload == SubSeq(response, 4, Len(response))
             expected_length == expected_blocks * DATA_BLOCK_SIZE
         IN  IF Len(block_payload) < expected_length
             THEN ReadRaise("RuntimeError", "block length", 0)
             ELSE ReadReturn([i \in 1..expected_blocks |->
                                SubSeq(block_payload, (i - 1) * DATA_BLOCK_SIZE + 1,
                                       i * DATA_BLOCK_SIZE)])

(***************************************************************************)
(* The card's blocks and what encryption_exchange hands back for a read    *)
(* payload: the card's answer, or one of its malformed variants.           *)
(***************************************************************************)
CardBlock(service_index, block_number) ==
    [j \in 1..16 |-> IF j = 1 THEN service_index
                     ELSE IF j = 2 THEN block_number
                     ELSE (block_number * 7 + j) % 256]

\* the blocks the payload [count, (0x80 | service, block)...] asks for
RequestedBlocks(payload) ==
    [k \in 1..((Len(payload) - 1) \div 2) |->
        CardBlock(payload[2 * k] % 16, payload[2 * k + 1])]

ResponseVariants ==
    {"good", "excess", "flag2", "short_tail", "count_plus", "count_minus",
     "status", "status_only", "two_bytes", "empty"}

ReadResponse(variant, payload) ==
    LET n == payload[1]
        tail == Flatten(RequestedBlocks(payload))
    IN  CASE variant = "good" -> <<0, 0, n>> \o tail
          [] variant = "excess" -> <<0, 0, n>> \o tail \o <<238, 238>>
          [] variant = "flag2" -> <<0, 9, n>> \o tail
          [] variant = "short_tail" -> <<0, 0, n>> \o SubSeq(tail, 1, Len(tail) - 1)
          [] variant = "count_plus" -> <<0, 0, n + 1>> \o tail
          [] variant = "count_minus" -> <<0, 0, n - 1>> \o tail
          [] variant = "status" -> <<255, 161, n>> \o tail
          [] variant = "status_only" -> <<1, 166, 0>>
          [] variant = "two_bytes" -> <<0, 0>>
          [] variant = "empty" -> <<>>

ExchangeErrors == {"FelicaRemoteClientError", "Type3TagCommandError"}

\* the arguments read_blocks is called with
Ascending(start, n) == [i \in 1..n |-> start + i - 1]
Descending(n) == [i \in 1..n |-> n - i]
IndexLists ==
    {Ascending(start, n) : start \in {-1, 0, 240}, n \in 0..MaxIndices}
    \cup {Descending(n) : n \in 2..MaxIndices}
    \cup {Ascending(232, MaxIndices)}
ServiceIndexes == {-1, 0, 4, 15, 16}
\* every block address there is: the services 0..15, the blocks 0..255
ValidServices == 0..15
AllBlockNumbers == Ascending(0, 256)

(***************************************************************************)
(* Actions of the reader.                                                  *)
(***************************************************************************)
IdleRead ==
    [pc |-> "idle", service_index |-> 0, index_list |-> <<>>, chunk_start |-> 0,
     blocks |-> <<>>, calls |-> <<>>, answered |-> FALSE, response |-> <<>>,
     ret |-> ReadNoRet]

InitRead ==
    /\ InitClient
    /\ rb = IdleRead
    /\ cd = NoTap
    /\ dec = NoDecode

\* read_blocks that checks every address before the first exchange
ReadBlocks_validates_up_front(service_index, indexes) ==
    /\ rb.pc = "idle"
    /\ LET elements == [k \in 1..Len(indexes) |-> <<service_index, indexes[k]>>]
           encoded == elements_to_bytes(elements)
       IN  rb' = [IdleRead EXCEPT
                    !.service_index = service_index,
                    !.index_list = indexes,
                    !.pc = IF Len(indexes) = 0 \/ encoded.err.outcome = "raise"
                           THEN "done" ELSE "reading",
                    !.ret = IF encoded.err.outcome = "raise" THEN encoded.err
                            ELSE IF Len(indexes) = 0 THEN ReadReturn(<<>>)
                            ELSE ReadNoRet]
    /\ UNCHANGED <<clientVars, cd, dec>>

\* read_blocks(service_index, indexes): up to the first encryption_exchange;
\* with no index the loop body never runs and [] is returned
ReadBlocks(service_index, indexes) ==
    /\ rb.pc = "idle"
    /\ rb' = [IdleRead EXCEPT
                !.service_index = service_index,
                !.index_list = indexes,
                !.pc = IF Len(indexes) = 0 THEN "done" ELSE "reading",
                !.ret = IF Len(indexes) = 0 THEN ReadReturn(<<>>) ELSE ReadNoRet]
    /\ UNCHANGED <<clientVars, cd, dec>>

\* one turn of the loop of read_blocks: the chunk, _read_elements on it with
\* what encryption_exchange gives (a response, or the exception `raised`),
\* blocks.extend, and `return blocks` after the last chunk
ReadChunk(variant, raised) ==
    /\ rb.pc = "reading"
    /\ LET chunk == chunk_of(rb.index_list, rb.chunk_start)
           elements == [k \in 1..Len(chunk) |-> <<rb.service_index, chunk[k]>>]
           encoded == elements_to_bytes(elements)
           payload == <<Len(elements)>> \o encoded.bytes
           response == ReadResponse(variant, payload)
           got == read_elements_response(Len(elements), response)
           next_start == rb.chunk_start + MAX_BLOCKS_PER_REQUEST
           called == [rb EXCEPT !.calls = Append(@, payload), !.answered = FALSE,
                                !.response = <<>>]
           answered == [called EXCEPT !.answered = TRUE, !.response = response]
       IN  IF encoded.err.outcome = "raise"
           THEN rb' = [rb EXCEPT !.pc = "done", !.answered = FALSE,
                                 !.response = <<>>, !.ret = encoded.err]
           ELSE IF raised # "-"
           THEN rb' = [called EXCEPT !.pc = "done",
                                     !.ret = ReadRaise(raised, "encryption_exchange", 0)]
           ELSE IF got.outcome = "raise"
           THEN rb' = [answered EXCEPT !.pc = "done", !.ret = got]
           ELSE IF next_start < Len(rb.index_list)
           THEN rb' = [answered EXCEPT !.blocks = @ \o got.value,
                                       !.chunk_start = next_start]
           ELSE rb' = [answered EXCEPT !.pc = "done",
                                       !.blocks = @ \o got.value,
                                       !.chunk_start = next_start,
                                       !.ret = ReadReturn(rb.blocks \o got.value)]
    /\ UNCHANGED <<clientVars, cd, dec>>

(***************************************************************************)
(* RemoteCardReader of gui.py, translated on its own from gui.py 137-195:  *)
(* what one call and one turn of its loop do to the reader's locals.       *)
(***************************************************************************)
\* gui.py _elements_to_bytes(elements), element by element from index k
RECURSIVE gui_elements_to_bytes(_, _, _)
gui_elements_to_bytes(elements, k, encoded) ==
    IF k > Len(elements) THEN [err |-> ReadNoRet, bytes |-> encoded]
    ELSE IF elements[k][1] < 0 \/ elements[k][1] >= 16
    THEN [err |-> ReadRaise("ValueError", "service index", 0), bytes |-> <<>>]
    ELSE IF elements[k][2] < 0 \/ elements[k][2] >= 256
    THEN [err |-> ReadRaise("ValueError", "block number", 0), bytes |-> <<>>]
    ELSE gui_elements_to_bytes(elements, k + 1,
             encoded \o <<BitOr(128, elements[k][1]), BitAnd(elements[k][2], 255)>>)

\* gui.py _read_elements(elements) when encryption_exchange raises `raised`
\* or returns `response`: the payloads sent and the blocks or the exception
gui_read_elements(elements, raised, response) ==
    LET encoded == gui_elements_to_bytes(elements, 1, <<>>)
        payload == <<Len(elements)>> \o encoded.bytes
        expected_blocks == Len(elements)
        expected_length == expected_blocks * DATA_BLOCK_SIZE
        block_payload == SubSeq(response, 4, Len(response))
    IN  IF encoded.err.outcome = "raise" THEN [sent |-> <<>>, ret |-> encoded.err]
        ELSE IF raised # "-"
        THEN [sent |-> <<payload>>, ret |-> ReadRaise(raised, "encryption_exchange", 0)]
        ELSE IF Len(response) < 3
        THEN [sent |-> <<payload>>, ret |-> ReadRaise("RuntimeError", "invalid response", 0)]
        ELSE IF response[1] # 0
        THEN [sent |-> <<payload>>,
              ret |-> ReadRaise("RuntimeError", "card error", response[1] * 256 + response[2])]
        ELSE IF response[3] # expected_blocks
        THEN [sent |-> <<payload>>, ret |-> ReadRaise("RuntimeError", "block count", 0)]
        ELSE IF Len(block_payload) < expected_length
        THEN [sent |-> <<payload>>, ret |-> ReadRaise("RuntimeError", "block length", 0)]
        ELSE [sent |-> <<payload>>,
              ret |-> ReadReturn([i \in 1..expected_blocks |->
                         SubSeq(block_payload, (i - 1) * DATA_BLOCK_SIZE + 1,
                                i * DATA_BLOCK_SIZE)])]

\* gui.py read_blocks(service_index, indexes) on entry: the locals, and the
\* return of [] when range() is empty
gui_read_blocks(service_index, indexes) ==
    [service_index |-> service_index, index_list |-> indexes, chunk_start |-> 0,
     blocks |-> <<>>, calls |-> <<>>,
     pc |-> IF Len(indexes) > 0 THEN "reading" ELSE "done",
     ret |-> IF Len(indexes) > 0 THEN ReadNoRet ELSE ReadReturn(<<>>)]

\* one turn of the loop of gui.py read_blocks from the locals r
gui_read_blocks_turn(r, raised, response) ==
    LET last == IF r.chunk_start + MAX_BLOCKS_PER_REQUEST < Len(r.index_list)
                THEN r.chunk_start + MAX_BLOCKS_PER_REQUEST ELSE Len(r.index_list)
        chunk == [k \in 1..(last - r.chunk_start) |-> r.index_list[r.chunk_start + k]]
        elements == [k \in 1..Len(chunk) |-> <<r.service_index, chunk[k]>>]
        got == gui_read_elements(elements, raised, response)
        more == r.chunk_start + MAX_BLOCKS_PER_REQUEST < Len(r.index_list)
    IN  IF got.ret.outcome = "raise"
        THEN [r EXCEPT !.calls = @ \o got.sent, !.pc = "done", !.ret = got.ret]
        ELSE [r EXCEPT !.calls = @ \o got.sent,
                       !.blocks = @ \o got.ret.value,
                       !.chunk_start = @ + MAX_BLOCKS_PER_REQUEST,
                       !.pc = IF more THEN "reading" ELSE "done",
                       !.ret = IF more THEN ReadNoRet
                               ELSE ReadReturn(r.blocks \o got.ret.value)]

NextRead ==
    \/ \E s \in ServiceIndexes, indexes \in IndexLists : ReadBlocks(s, indexes)
    \/ \E s \in ValidServices : ReadBlocks(s, AllBlockNumbers)
    \/ \E variant \in ResponseVariants : ReadChunk(variant, "-")
    \/ \E e \in ExchangeErrors : ReadChunk("good", e)

SpecRead == InitRead /\ [][NextRead]_vars

(***************************************************************************)
(* A card tap: on_connect (cli.py) and SuicaGuiApp._on_connect with        *)
(* CardDataService.collect (gui.py).  One thread handles the taps, one     *)
(* after the other, any number of them; in SpecCollect nOps counts the     *)
(* operations of the tap being handled.                                    *)
(***************************************************************************)
MaxScheduled == 1  \* _apply_card_data callbacks waiting for the UI thread

Frontends == {"cli", "gui"}

\* (service index, number of blocks) of the reads, in the order of the calls
ReadPlanCli ==
    << <<0, 4>>, <<1, 1>>, <<2, 1>>, <<3, 3>>, <<4, 20>>, <<6, 3>>, <<7, 3>>,
       <<8, 2>> >>
ReadPlanGui ==
    << <<0, 4>>, <<1, 1>>, <<3, 3>>, <<2, 1>>, <<4, 20>>, <<6, 3>>, <<7, 3>>,
       <<8, 2>> >>
\* one plan for both front ends
ReadPlan_same_for_both(frontend) == ReadPlanCli

ReadPlan(frontend) == IF frontend = "cli" THEN ReadPlanCli ELSE ReadPlanGui

\* str.upper() on the characters of the model
UpperChar(c) ==
    IF \E i \in 1..16 : HexLower[i] = c
    THEN HexUpper[CHOOSE i \in 1..16 : HexLower[i] = c]
    ELSE IF c = "g" THEN "G" ELSE c
Upper(text) == [i \in 1..Len(text) |-> UpperChar(text[i])]

\* a.get(k2) or a.get(k1) or ""
FirstText_second_first(v1, v2) ==
    IF v2 # Absent /\ v2[1] = "str" /\ Len(v2[2]) > 0 THEN v2[2]
    ELSE IF v1 # Absent /\ v1[1] = "str" /\ Len(v1[2]) > 0 THEN v1[2]
    ELSE <<>>

\* a.get(k1) or a.get(k2) or ""
FirstText(v1, v2) ==
    IF v1 # Absent /\ v1[1] = "str" /\ Len(v1[2]) > 0 THEN v1[2]
    ELSE IF v2 # Absent /\ v2[1] = "str" /\ Len(v2[2]) > 0 THEN v2[2]
    ELSE <<>>

\* _build_system_info(auth_result) and the same lines of on_connect: the
\* exception raised, or the identifier and the parameter
build_system_info(auth_result) ==
    LET res == auth_result[2]
        idi_hex == Upper(FirstText(res.issue_id, res.idi))
        pmi_hex == Upper(FirstText(res.issue_parameter, res.pmi))
    IN  IF idi_hex = <<>>
        THEN [exc |-> "RuntimeError", msg |-> "missing issue_id", idi |-> <<>>, pmi |-> <<>>]
        ELSE IF pmi_hex = <<>>
        THEN [exc |-> "RuntimeError", msg |-> "missing issue_parameter",
              idi |-> <<>>, pmi |-> <<>>]
        ELSE IF ~FromHexOK(idi_hex)
        THEN [exc |-> "RuntimeError", msg |-> "issue id is not valid hex",
              idi |-> <<>>, pmi |-> <<>>]
        ELSE IF Len(FromHex(idi_hex)) < 8
        THEN [exc |-> "ValueError", msg |-> "idi_bytes must be 8 bytes",
              idi |-> <<>>, pmi |-> <<>>]
        ELSE [exc |-> "-", msg |-> "-", idi |-> idi_hex, pmi |-> pmi_hex]

\* what the authority answers during a tap
CollectAuthReplies ==
    {Reply(200, Absent, Str("auth1"), Cmd1, Absent, Absent, Str("s1")),
     Reply(200, Absent, Str("auth2"), Cmd2, Absent, Absent, Absent),
     Reply(200, Absent, Str("auth1"), CmdNoFrame, Absent, Absent, Absent),
     Reply(200, Absent, Str("other"), Absent, Result1, Absent, Absent),
     Reply(200, Err(Num(420), Absent), Absent, Absent, Absent, Absent, Absent),
     Reply(400, Err(Absent, Str("m")), Absent, Absent, Absent, Absent, Absent)}
    \cup {Reply(200, Absent, Str("complete"), Absent, res, Absent, Absent) :
            res \in {Absent, Result1, Result2, ResultBadHex, ResultShortId}}

CollectVariants ==
    {"good", "excess", "short_tail", "count_minus", "status", "two_bytes"}

\* before the first tap
IdleTap ==
    [pc |-> "wait", frontend |-> "gui", client |-> "none", k |-> 0,
     reads |-> <<>>, auth_step |-> Null, out |-> "none", exc |-> "-",
     idi |-> <<>>, scheduled |-> 0, shown |-> "nothing", closed |-> FALSE]


InitCollect ==
    /\ InitClient
    /\ rb = IdleRead
    /\ \E f \in Frontends : cd = [IdleTap EXCEPT !.frontend = f]
    /\ dec = NoDecode

\* the handler that hands the data read so far to the UI thread on a failure
Abort_schedules(c, r, e, exc) ==
    /\ cd' = [c EXCEPT !.pc = "wait", !.out = "raise", !.exc = exc,
                       !.scheduled = @ + 1]
    /\ rb' = [r EXCEPT !.pc = "done", !.ret = e]
    /\ UNCHANGED <<clientVars, dec>>

\* an exception of the client, as it leaves read_blocks
ClientError(r) ==
    ReadRaise(r.exc, r.msg, IF r.code # Absent /\ r.code[1] = "num" THEN r.code[2] ELSE 0)

\* the exception e leaves read_blocks (when it was raised there), collect and
\* the handler, which reports it as kind exc: nothing is scheduled
Abort(c, r, e, exc) ==
    /\ cd' = [c EXCEPT !.pc = "wait", !.out = "raise", !.exc = exc]
    /\ rb' = [r EXCEPT !.pc = "done", !.ret = e]
    /\ UNCHANGED <<clientVars, dec>>

\* one turn of the loop of read_blocks up to the first write of
\* encryption_exchange: the chunk at r.chunk_start, its payload, the call
CallChunk(c, r) ==
    LET chunk == chunk_of(r.index_list, r.chunk_start)
        elements == [i \in 1..Len(chunk) |-> <<r.service_index, chunk[i]>>]
        encoded == elements_to_bytes(elements)
        payload == <<Len(elements)>> \o encoded.bytes
    IN  IF encoded.err.outcome = "raise"
        THEN Abort(c, r, encoded.err, encoded.err.exc)
        ELSE /\ cd' = c
             /\ rb' = [r EXCEPT !.calls = Append(@, payload), !.answered = FALSE,
                                !.response = <<>>]
             /\ nOps' = nOps + 1
             /\ encryption_exchange_call(READ_COMMAND_CODE, payload, Null)
             /\ UNCHANGED dec

\* the k-th read of the plan: read_blocks(service, range(n))
StartRead(c, k) ==
    LET entry == ReadPlan(c.frontend)[k]
        r == [IdleRead EXCEPT !.pc = "reading", !.service_index = entry[1],
                              !.index_list = Ascending(0, entry[2])]
    IN  CallChunk([c EXCEPT !.pc = "read", !.k = k,
                            !.reads = Append(@, <<entry[1], entry[2]>>)], r)

\* a tap whose client, when reused, is not reset to the new tag's session
Tap_without_reset(t, detected) ==
    /\ cd.pc = "wait"
    /\ pc = "idle"
    /\ cd.scheduled < MaxScheduled
    /\ LET c == [cd EXCEPT !.k = 0, !.reads = <<>>,
                           !.auth_step = Null, !.out = "none", !.exc = "-",
                           !.idi = <<>>]
           reused == cd.frontend = "gui" /\ cd.client = "made"
           sid == IF reused THEN session_id ELSE Null
       IN  IF detected = "not_felica"
           THEN /\ cd' = c
                /\ UNCHANGED <<clientVars, rb, dec>>
           ELSE IF detected = "bad_polling"
           THEN /\ cd' = [c EXCEPT !.out = "raise", !.exc = "RuntimeError"]
                /\ UNCHANGED <<clientVars, rb, dec>>
           ELSE /\ cd' = [c EXCEPT !.pc = "auth", !.client = "made"]
                /\ rb' = IdleRead
                /\ tag' = t
                /\ session_id' = sid
                /\ authenticated' = IF reused THEN authenticated ELSE FALSE
                /\ connection' = IF reused THEN connection ELSE "none"
                /\ nOps' = 1
                /\ mutual_authentication_call(sid, t)
                /\ UNCHANGED dec

\* a tag is presented: the isinstance check, tag.polling, the client (made,
\* or reset to the tag by _get_remote_client), and collect up to the first
\* write of mutual_authentication
Tap(t, detected) ==
    /\ cd.pc = "wait"
    /\ pc = "idle"
    /\ cd.scheduled < MaxScheduled
    /\ LET c == [cd EXCEPT !.k = 0, !.reads = <<>>,
                           !.auth_step = Null, !.out = "none", !.exc = "-",
                           !.idi = <<>>]
       IN  IF detected = "not_felica"
           THEN /\ cd' = c
                /\ UNCHANGED <<clientVars, rb, dec>>
           ELSE IF detected = "bad_polling"
           THEN /\ cd' = [c EXCEPT !.out = "raise", !.exc = "RuntimeError"]
                /\ UNCHANGED <<clientVars, rb, dec>>
           ELSE /\ cd' = [c EXCEPT !.pc = "auth", !.client = "made"]
                /\ rb' = IdleRead
                /\ tag' = t
                /\ session_id' = Null
                /\ authenticated' = FALSE
                /\ connection' = IF cd.frontend = "gui" /\ cd.client = "made"
                                 THEN connection ELSE "none"
                /\ nOps' = 1
                /\ mutual_authentication_call(Null, t)
                /\ UNCHANGED dec

\* collect after mutual_authentication: the exception goes on, or the system
\* information is built and the first read starts
AuthReturns ==
    /\ cd.pc = "auth"
    /\ pc = "idle"
    /\ LET c == [cd EXCEPT !.auth_step = Get(reply.step)]
           sys == build_system_info(ret.result)
       IN  IF ret.outcome = "raise"
           THEN Abort(c, rb, rb.ret,
                      IF cd.frontend = "cli" /\ ret.exc = "FelicaRemoteClientError"
                      THEN "RuntimeError" ELSE ret.exc)
           ELSE IF sys.exc # "-"
           THEN Abort(c, rb, rb.ret, sys.exc)
           ELSE StartRead([c EXCEPT !.idi = sys.idi], 1)

\* _read_elements after encryption_exchange: the exception goes on, or the
\* response is checked and sliced, the blocks are added, and the next chunk,
\* the next read of the plan or the end of the handler follows; `decoded`
\* tells whether the decoding of the blocks of a finished read succeeds
ExchangeReturns(decoded) ==
    /\ cd.pc = "read"
    /\ pc = "idle"
    /\ LET chunk == chunk_of(rb.index_list, rb.chunk_start)
           got == read_elements_response(Len(chunk), ret.data)
           next_start == rb.chunk_start + MAX_BLOCKS_PER_REQUEST
           answered == [rb EXCEPT !.answered = TRUE, !.response = ret.data]
           r == [answered EXCEPT !.blocks = @ \o got.value,
                                 !.chunk_start = next_start]
           done == [r EXCEPT !.pc = "done", !.ret = ReadReturn(r.blocks)]
       IN  IF ret.outcome = "raise"
           THEN Abort(cd, rb, ClientError(ret), ret.exc)
           ELSE IF got.outcome = "raise"
           THEN Abort(cd, answered, got, got.exc)
           ELSE IF next_start < Len(rb.index_list)
           THEN CallChunk(cd, r)
           ELSE IF ~decoded
           THEN Abort(cd, done, done.ret, "DecodeError")
           ELSE IF cd.k < Len(ReadPlan(cd.frontend))
           THEN StartRead(cd, cd.k + 1)
           ELSE /\ cd' = [cd EXCEPT !.pc = "wait", !.out = "data",
                                    !.scheduled = IF cd.frontend = "gui"
                                                  THEN @ + 1 ELSE @]
                /\ rb' = done
                /\ UNCHANGED <<clientVars, dec>>

\* the UI thread runs the callback handed to root.after: _apply_card_data
ApplyCardData ==
    /\ cd.pc # "off"
    /\ cd.scheduled > 0
    /\ cd' = [cd EXCEPT !.shown = "snapshot", !.scheduled = @ - 1]
    /\ UNCHANGED <<clientVars, rb, dec>>

\* the replies to the request in flight
CollectReplies ==
    IF pc # "post" THEN {}
    ELSE IF op = "mutual_authentication" THEN CollectAuthReplies
    ELSE IF phase = "first"
    THEN {Reply(200, Absent, Absent, Cmd1, Absent, Absent, Absent),
          Reply(200, Err(Num(420), Absent), Absent, Absent, Absent, Absent, Absent)}
    ELSE {Reply(200, Absent, Absent, Absent, Absent,
                Str(ToHex(ReadResponse(v, args.payload))), Absent) :
             v \in CollectVariants}
         \cup {EmptyBody, InvalidJson(200),
               Reply(200, Absent, Absent, Absent, Absent, Str(<<"x">>), Absent)}

NextCollect ==
    \/ \E t \in Tags, detected \in {"felica", "bad_polling", "not_felica"} :
           Tap(t, detected)
    \/ \E sent \in BOOLEAN : HttpAttemptFails(sent)
    \/ \E r \in CollectReplies : HttpReply(r)
    \/ \E card_response \in CardResponses : CardExchange(card_response)
    \/ CardExchangeFails
    \/ AuthReturns
    \/ \E decoded \in BOOLEAN : ExchangeReturns(decoded)
    \/ ApplyCardData

SpecCollect == InitCollect /\ [][NextCollect]_vars

(***************************************************************************)
(* The GUI with its window being closed: the NFC thread handles the taps   *)
(* while the UI thread may run _on_close at any moment; nothing orders the *)
(* two.  An attempt of post(), from _ensure_connection to the response, is *)
(* one step of the NFC thread, as everywhere in this model.  root.quit()   *)
(* ends the main loop: no callback of root.after runs after it, and the    *)
(* daemon thread goes on until the interpreter exits; the tap it is        *)
(* handling is followed to its end, a tap after that is not.               *)
(***************************************************************************)
InitShutdown ==
    /\ InitClient
    /\ tag = Tag1
    /\ rb = IdleRead
    /\ cd = IdleTap
    /\ dec = NoDecode

\* _on_close that leaves the connection of the client to the NFC thread
OnClose_keeps_connection ==
    /\ cd.frontend = "gui"
    /\ ~cd.closed
    /\ cd' = [cd EXCEPT !.client = "none", !.closed = TRUE]
    /\ UNCHANGED <<clientVars, rb, dec>>

\* _on_close(): _remote_client.close() when there is a client, which leaves
\* _connection None, _remote_client = None, root.quit()
OnClose ==
    /\ cd.frontend = "gui"
    /\ ~cd.closed
    /\ connection' = IF cd.client = "made" THEN "none" ELSE connection
    /\ cd' = [cd EXCEPT !.client = "none", !.closed = TRUE]
    /\ UNCHANGED <<session_id, authenticated, pc, op, phase, rounds, req, attempt,
                   attempts, reply, command, exchanged, log, ret, nOps, tag, args,
                   rb, dec>>

NextShutdown ==
    \/ /\ ~cd.closed
       /\ \E detected \in {"felica", "bad_polling", "not_felica"} : Tap(tag, detected)
    \/ \E sent \in BOOLEAN : HttpAttemptFails(sent)
    \/ \E r \in CollectReplies : HttpReply(r)
    \/ \E card_response \in CardResponses : CardExchange(card_response)
    \/ CardExchangeFails
    \/ AuthReturns
    \/ \E decoded \in BOOLEAN : ExchangeReturns(decoded)
    \/ ~cd.closed /\ ApplyCardData
    \/ OnClose

SpecShutdown == InitShutdown /\ [][NextShutdown]_vars

(***************************************************************************)
(* Operations whose blocking calls all come back: every POST is answered   *)
(* or fails, every card exchange answers or fails.  Either a               *)
(* mutual_authentication on the new client and an encryption_exchange      *)
(* after it, or one read_blocks, each turn of its loop one step.           *)
(***************************************************************************)
InitTerminates ==
    /\ InitClient
    /\ rb \in {NoRead, IdleRead}
    /\ cd = NoTap
    /\ dec = NoDecode

CallComesBack ==
    \/ \E sent \in BOOLEAN : HttpAttemptFails(sent)
    \/ \E r \in Replies : HttpReply(r)
    \/ \E card_response \in CardResponses : CardExchange(card_response)
    \/ CardExchangeFails

NextTerminates ==
    \/ rb = NoRead /\ op = "-" /\ MutualAuthentication
    \/ /\ rb = NoRead
       /\ op = "mutual_authentication"
       /\ \E a \in ExchangeArgs :
              EncryptionExchange(READ_COMMAND_CODE, a.payload, a.timeout)
    \/ CallComesBack
    \/ \E s \in ServiceIndexes, indexes \in IndexLists : ReadBlocks(s, indexes)
    \/ \E variant \in ResponseVariants : ReadChunk(variant, "-")
    \/ \E e \in ExchangeErrors : ReadChunk("good", e)

SpecTerminates ==
    InitTerminates /\ [][NextTerminates]_vars /\ WF_vars(CallComesBack)

(***************************************************************************)
(* Decoding of the blocks read from the card (utils.py and the extractors  *)
(* of gui.py; cli.py prints the same items).  Text is a sequence of        *)
(* strings; the labels of the tables stand for the Japanese text of the    *)
(* source.                                                                 *)
(***************************************************************************)
DecChars == <<"0","1","2","3","4","5","6","7","8","9">>

\* str(n) of a non-negative integer
RECURSIVE Dec(_)
Dec(n) == IF n < 10 THEN <<DecChars[n + 1]>>
          ELSE Dec(n \div 10) \o <<DecChars[(n % 10) + 1]>>

\* f"{n:X}"
RECURSIVE HexOf(_)
HexOf(n) == IF n < 16 THEN <<HexUpper[n + 1]>>
            ELSE HexOf(n \div 16) \o <<HexUpper[(n % 16) + 1]>>

\* the zero fill of the format specs 02, 05, 02d, 05d, 02X: at least width
\* characters
ZeroFill(text, width) ==
    IF Len(text) >= width THEN text
    ELSE [i \in 1..(width - Len(text)) |-> "0"] \o text

\* b[i:j]
Slice(b, i, j) == SubSeq(b, i + 1, Min(j, Len(b)))

\* int.from_bytes(b, byteorder="big") and byteorder="little"
RECURSIVE FromBytesBig(_)
FromBytesBig(b) ==
    IF b = <<>> THEN 0
    ELSE FromBytesBig(SubSeq(b, 1, Len(b) - 1)) * 256 + b[Len(b)]
RECURSIVE FromBytesLittle(_)
FromBytesLittle(b) ==
    IF b = <<>> THEN 0 ELSE b[1] + 256 * FromBytesLittle(Tail(b))

\* bytes.hex().upper()
HexUpperOfBytes(b) == Upper(ToHex(b))

EQUIPMENT_TYPES ==
    (\h00 :> <<"undefined">>) @@ (\h03 :> <<"fare adjustment machine">>)
    @@ (\h04 :> <<"portable terminal">>) @@ (\h05 :> <<"on-board unit">>)
    @@ (\h07 :> <<"card vending machine">>) @@ (\h08 :> <<"ticket machine">>)
    @@ (\h09 :> <<"quick charge machine?">>)
    @@ (\h12 :> <<"ticket machine (Tokyo Monorail)">>)
    @@ (\h14 :> <<"station equipment (PASMO issuing machine?)">>)
    @@ (\h15 :> <<"commuter pass vending machine">>)
    @@ (\h16 :> <<"automatic gate">>) @@ (\h17 :> <<"simple gate">>)
    @@ (\h18 :> <<"station equipment (issuing machine?)">>)
    @@ (\h19 :> <<"counter machine (ticket office)">>)
    @@ (\h1A :> <<"counter machine (staffed gate)">>)
    @@ (\h1B :> <<"mobile FeliCa">>) @@ (\h1C :> <<"platform ticket machine">>)
    @@ (\h1D :> <<"transfer gate">>) @@ (\h1F :> <<"deposit machine">>)
    @@ (\h20 :> <<"issuing machine? (monorail)">>)
    @@ (\h22 :> <<"simple gate (Kotoden)">>)
    @@ (\h34 :> <<"card vending machine (Setamaru?)">>)
    @@ (\h35 :> <<"on-board unit (Setamaru deposit machine?)">>)
    @@ (\h36 :> <<"on-board unit (simple gate)">>)
    @@ (\h46 :> <<"VIEW ALTTE terminal">>)
    @@ (\hC7 :> <<"sales terminal">>) @@ (\hC8 :> <<"sales terminal">>)

TRANSACTION_TYPES ==
    (\h00 :> <<"undefined">>) @@ (\h01 :> <<"gate exit">>)
    @@ (\h02 :> <<"SF charge">>) @@ (\h03 :> <<"ticket purchase">>)
    @@ (\h04 :> <<"magnetic ticket adjustment">>)
    @@ (\h05 :> <<"overrun adjustment">>) @@ (\h06 :> <<"counter exit">>)
    @@ (\h07 :> <<"new">>) @@ (\h08 :> <<"deduction">>)
    @@ (\h0D :> <<"bus flat fare">>) @@ (\h0F :> <<"bus">>)
    @@ (\h11 :> <<"reissue?">>) @@ (\h13 :> <<"charge exit">>)
    @@ (\h14 :> <<"auto charge">>) @@ (\h1F :> <<"bus charge">>)
    @@ (\h46 :> <<"sales">>) @@ (\h48 :> <<"point charge">>)
    @@ (\h4B :> <<"entry and sales">>)

PAY_TYPES ==
    (\h00 :> <<"cash or none">>) @@ (\h02 :> <<"VIEW">>)
    @@ (\h0B :> <<"PiTaPa">>) @@ (\h0D :> <<"auto charge PASMO">>)
    @@ (\h3F :> <<"mobile Suica (other than VIEW)">>)

GATE_INSTRUCTION_TYPES ==
    (\h00 :> <<"undefined">>) @@ (\h01 :> <<"entry">>)
    @@ (\h02 :> <<"entry/exit">>) @@ (\h03 :> <<"pass entry/exit">>)
    @@ (\h04 :> <<"entry/pass exit">>) @@ (\h0E :> <<"counter exit">>)
    @@ (\h0F :> <<"entry/exit (bus)">>)
    @@ (\h12 :> <<"charge pass entry/charge exit">>)
    @@ (\h17 :> <<"entry/exit (transfer discount)">>)
    @@ (\h21 :> <<"entry/exit (bus transfer discount)">>)

GATE_IN_OUT_TYPES ==
    (\h00 :> <<"adjustment exit">>)
    @@ (\h01 :> <<"adjustment exit (with prepaid card?)">>)
    @@ (\h20 :> <<"exit">>) @@ (\h21 :> <<"station equipment exit">>)
    @@ (\h22 :> <<"discount exit">>) @@ (\h24 :> <<"discount exit?">>)
    @@ (\h40 :> <<"pass exit">>) @@ (\h80 :> <<"flat zone entry?">>)
    @@ (\hA0 :> <<"entry">>) @@ (\hA2 :> <<"discount entry?">>)
    @@ (\hC0 :> <<"pass entry">>)

INTERMADIATE_GATE_INSTRUCTION_TYPES ==
    (\h00 :> <<"undefined">>) @@ (\h04 :> <<"transfer discount?">>)
    @@ (\h08 :> <<"train-bus transfer discount?">>)
    @@ (\h40 :> <<"Shinkansen transfer gate?">>)

\* the module-level dictionaries of utils.py
CodeTables ==
    [equipment |-> EQUIPMENT_TYPES, transaction |-> TRANSACTION_TYPES,
     pay |-> PAY_TYPES, gate_instruction |-> GATE_INSTRUCTION_TYPES,
     gate_in_out |-> GATE_IN_OUT_TYPES,
     intermadiate |-> INTERMADIATE_GATE_INSTRUCTION_TYPES]
TableNames == DOMAIN CodeTables

\* the unknown_label each *_to_str function passes
UnknownLabel ==
    [equipment |-> "equipment type", transaction |-> "transaction type",
     pay |-> "pay type", gate_instruction |-> "gate instruction type",
     gate_in_out |-> "gate in/out type",
     intermadiate |-> "intermediate gate instruction type"]

\* f"<unknown><unknown_label> (0x{value:02X})"
FallbackLabel(unknown_label, value) ==
    <<"unknown", unknown_label, "(0x">> \o ZeroFill(HexOf(value), 2) \o <<")">>

\* a lookup that stores the fallback label: mapping.setdefault(value, ...)
lookup_by_mapping_setdefault(mapping, value, unknown_label) ==
    IF value \in DOMAIN mapping
    THEN [label |-> mapping[value], mapping |-> mapping]
    ELSE [label |-> FallbackLabel(unknown_label, value),
          mapping |-> mapping @@ (value :> FallbackLabel(unknown_label, value))]

\* _lookup_by_mapping(mapping, value, unknown_label): the label returned and
\* the dictionary after the call
lookup_by_mapping(mapping, value, unknown_label) ==
    [label |-> IF value \in DOMAIN mapping THEN mapping[value]
               ELSE FallbackLabel(unknown_label, value),
     mapping |-> mapping]

\* equipment_type_to_str, transaction_type_to_str, pay_type_to_str,
\* gate_instruction_type_to_str, gate_in_out_type_to_str and
\* intermadiate_gate_instruction_type_to_str on the dictionaries `tables`
type_to_str(tables, name, code) ==
    lookup_by_mapping(tables[name], code, UnknownLabel[name])

\* int_to_date that takes five bits for the month
int_to_date_wide_month(value) ==
    <<value \div 512, BitAnd(value \div 32, \h1F), BitAnd(value, \h1F)>>

\* int_to_date(value) -> (year, month, day)
int_to_date(value) ==
    <<value \div 512, BitAnd(value \div 32, \h0F), BitAnd(value, \h1F)>>

\* int_to_time(value) -> (hour, minute, second)
int_to_time(value) ==
    <<value \div 2048, BitAnd(value \div 32, \h3F), BitAnd(value, \h1F) * 2>>

\* format_date(value): f"{year:02}-{month:02}-{day:02}"
format_date(value) ==
    LET d == int_to_date(value)
    IN  ZeroFill(Dec(d[1]), 2) \o <<"-">> \o ZeroFill(Dec(d[2]), 2) \o <<"-">>
        \o ZeroFill(Dec(d[3]), 2)

\* format_time(value): f"{hour:02}:{minute:02}:{second:02}"
format_time(value) ==
    LET t == int_to_time(value)
    IN  ZeroFill(Dec(t[1]), 2) \o <<":">> \o ZeroFill(Dec(t[2]), 2) \o <<":">>
        \o ZeroFill(Dec(t[3]), 2)

\* the rows of station_codes.csv the model knows, by (line, station order)
Stations ==
    (<<1, 1>> :> <<"JR East", "Tokaido", "Tokyo">>)
    @@ (<<1, 2>> :> <<"JR East", "Tokaido", "Yurakucho">>)
    @@ (<<227, 4>> :> <<"Tokyo Metro", "Ginza", "Ginza">>)

\* format_station(station_code_lookup, line_code, station_order)
format_station(line_code, station_order) ==
    IF <<line_code, station_order>> \in DOMAIN Stations
    THEN Stations[<<line_code, station_order>>]
    ELSE <<"unknown", "(line code: 0x">> \o ZeroFill(HexOf(line_code), 2)
         \o <<", station order code: 0x">> \o ZeroFill(HexOf(station_order), 2)
         \o <<")">>

\* idi_bytes_to_str(idi_bytes): the exception raised, or the text
idi_bytes_to_str(idi_bytes) ==
    IF Len(idi_bytes) < 8
    THEN [exc |-> "ValueError", text |-> <<>>]
    ELSE LET data == idi_bytes
             head == HexUpperOfBytes(Slice(data, 0, 4))
             v == BitOr(data[5] * 256, data[6])
             year == BitAnd(v \div 512, \h3F)
             month == BitAnd(v \div 32, \h0F)
             day == BitAnd(v, \h1F)
             yy == year % 100
             date_part == ZeroFill(Dec(yy), 2) \o ZeroFill(Dec(month), 2)
                          \o ZeroFill(Dec(day), 2)
             tail_val == FromBytesBig(Slice(data, 6, 8))
             tail == ZeroFill(Dec(tail_val), 5)
         IN  [exc |-> "-", text |-> head \o date_part \o tail]

\* the dictionaries after the lookups <<name, code>> made in this order
RECURSIVE TablesAfter(_, _)
TablesAfter(tables, lookups) ==
    IF lookups = <<>> THEN tables
    ELSE LET name == Head(lookups)[1]
             code == Head(lookups)[2]
         IN  TablesAfter([tables EXCEPT ![name] = type_to_str(tables, name, code).mapping],
                         Tail(lookups))

\* one turn of the loop of read_transaction_history that was not stopped:
\* the entry appended for blocks[index]
transaction_entry(tables, index, block) ==
    LET recorded_by == block[1]
        transaction_type_code == BitAnd(block[2], \h7F)
        pay_type_code == block[3]
        gate_instruction_type_code == block[4]
        recorded_at == FromBytesBig(Slice(block, 4, 6))
        entry == [index |-> index,
                  recorded_on |-> format_date(recorded_at),
                  recorded_by_code |-> recorded_by,
                  recorded_by |-> type_to_str(tables, "equipment", recorded_by).label,
                  transaction_type_code |-> transaction_type_code,
                  transaction_type |->
                      type_to_str(tables, "transaction", transaction_type_code).label,
                  pay_type_code |-> pay_type_code,
                  pay_type |-> type_to_str(tables, "pay", pay_type_code).label,
                  gate_instruction_type_code |-> gate_instruction_type_code,
                  gate_instruction_type |->
                      type_to_str(tables, "gate_instruction",
                                  gate_instruction_type_code).label]
        shape == IF transaction_type_code = \h46
                 THEN [transaction_time |-> format_time(FromBytesBig(Slice(block, 6, 8)))]
                 ELSE [entry_station |-> format_station(block[7], block[8]),
                       exit_station |-> format_station(block[9], block[10])]
    IN  entry @@ shape
        @@ [balance |-> FromBytesLittle(Slice(block, 10, 12)),
            transaction_number |-> FromBytesBig(Slice(block, 13, 15))]

\* the lookups transaction_entry makes for a block
transaction_lookups(block) ==
    << <<"equipment", block[1]>>, <<"transaction", BitAnd(block[2], \h7F)>>,
       <<"pay", block[3]>>, <<"gate_instruction", block[4]>> >>

\* read_transaction_history that skips a block with recorded-by 0 and goes on
RECURSIVE read_transaction_history_skips(_, _, _)
read_transaction_history_skips(tables, blocks, index) ==
    IF index >= Len(blocks) THEN [entries |-> <<>>, tables |-> tables]
    ELSE LET block == blocks[index + 1]
         IN  IF block[1] = \h00
             THEN read_transaction_history_skips(tables, blocks, index + 1)
             ELSE LET rest == read_transaction_history_skips(
                                  TablesAfter(tables, transaction_lookups(block)),
                                  blocks, index + 1)
                  IN  [entries |-> <<transaction_entry(tables, index, block)>>
                                   \o rest.entries,
                       tables |-> rest.tables]

\* read_transaction_history that takes the type code from byte 1 unmasked
RECURSIVE read_transaction_history_unmasked(_, _, _)
read_transaction_history_unmasked(tables, blocks, index) ==
    IF index >= Len(blocks) THEN [entries |-> <<>>, tables |-> tables]
    ELSE LET block == blocks[index + 1]
             e == transaction_entry(tables, index, block)
             plain == [k \in {"index", "recorded_on", "recorded_by_code", "recorded_by",
                              "transaction_type", "pay_type_code", "pay_type",
                              "gate_instruction_type_code", "gate_instruction_type",
                              "balance", "transaction_number"} |-> e[k]]
                      @@ [transaction_type_code |-> block[2]]
             unmasked == IF block[2] = \h46
                         THEN plain @@ [transaction_time |->
                                           format_time(FromBytesBig(Slice(block, 6, 8)))]
                         ELSE plain @@ [entry_station |-> format_station(block[7], block[8]),
                                        exit_station |-> format_station(block[9], block[10])]
         IN  IF block[1] = \h00 THEN [entries |-> <<>>, tables |-> tables]
             ELSE LET rest == read_transaction_history_unmasked(
                                  TablesAfter(tables, transaction_lookups(block)),
                                  blocks, index + 1)
                  IN  [entries |-> <<unmasked>> \o rest.entries, tables |-> rest.tables]

\* the loop of read_transaction_history (gui.py) and print_transaction_history
\* (cli.py) from blocks[index] on: the entries appended, or printed, and the
\* dictionaries afterwards
RECURSIVE read_transaction_history(_, _, _)
read_transaction_history(tables, blocks, index) ==
    IF index >= Len(blocks) THEN [entries |-> <<>>, tables |-> tables]
    ELSE LET block == blocks[index + 1]
         IN  IF block[1] = \h00
             THEN [entries |-> <<>>, tables |-> tables]
             ELSE LET rest == read_transaction_history(
                                  TablesAfter(tables, transaction_lookups(block)),
                                  blocks, index + 1)
                  IN  [entries |-> <<transaction_entry(tables, index, block)>>
                                   \o rest.entries,
                       tables |-> rest.tables]

\* one turn of the loop of read_gate_in_out_information
gate_entry(tables, index, block) ==
    LET date == FromBytesBig(Slice(block, 6, 8))
        time_hex == HexUpperOfBytes(Slice(block, 8, 10))
    IN  [index |-> index,
         date |-> format_date(date),
         time |-> Slice(time_hex, 0, 2) \o <<":">> \o Slice(time_hex, 2, 4),
         gate_in_out_type_code |-> block[1],
         gate_in_out_type |-> type_to_str(tables, "gate_in_out", block[1]).label,
         intermediate_gate_instruction_type_code |-> block[2],
         intermediate_gate_instruction_type |->
             type_to_str(tables, "intermadiate", block[2]).label,
         station |-> format_station(block[3], block[4]),
         device_id_hex |-> HexUpperOfBytes(Slice(block, 4, 6)),
         amount |-> FromBytesLittle(Slice(block, 10, 12)),
         commuter_pass_fee |-> FromBytesLittle(Slice(block, 12, 14)),
         commuter_station |-> format_station(block[15], block[16])]

gate_lookups(block) == << <<"gate_in_out", block[1]>>, <<"intermadiate", block[2]>> >>

\* read_gate_in_out_information that stops at an all-zero block
RECURSIVE read_gate_in_out_information_stops(_, _, _)
read_gate_in_out_information_stops(tables, blocks, index) ==
    IF index >= Len(blocks) THEN [entries |-> <<>>, tables |-> tables]
    ELSE LET block == blocks[index + 1]
         IN  IF \A i \in 1..Len(block) : block[i] = 0
             THEN [entries |-> <<>>, tables |-> tables]
             ELSE LET rest == read_gate_in_out_information_stops(
                                  TablesAfter(tables, gate_lookups(block)),
                                  blocks, index + 1)
                  IN  [entries |-> <<gate_entry(tables, index, block)>> \o rest.entries,
                       tables |-> rest.tables]

\* the loop of read_gate_in_out_information (gui.py) and
\* print_gate_in_out_information (cli.py) from blocks[index] on
RECURSIVE read_gate_in_out_information(_, _, _)
read_gate_in_out_information(tables, blocks, index) ==
    IF index >= Len(blocks) THEN [entries |-> <<>>, tables |-> tables]
    ELSE LET block == blocks[index + 1]
             rest == read_gate_in_out_information(
                         TablesAfter(tables, gate_lookups(block)), blocks, index + 1)
         IN  [entries |-> <<gate_entry(tables, index, block)>> \o rest.entries,
              tables |-> rest.tables]

(***************************************************************************)
(* The decoding functions applied to blocks a read returned.               *)
(***************************************************************************)
HistoryBlocks == 20     \* range(20) of the read of service 4
GateBlocks == 3         \* range(3) of the read of service 7

Byte == 0..255
Word == 0..65535

\* the fields of a 16-bit packed date: 7, 4 and 5 bits
Years == 0..127
Months == 0..15
Days == 0..31

ZeroBlock == [i \in 1..DATA_BLOCK_SIZE |-> 0]

\* a block of service 4: recorded-by, type byte, and a transaction number
\* that tells the blocks apart
TxBlock(recorded_by, type_byte, number) ==
    <<recorded_by, type_byte, \h02, \h01, \h2E, \h8F, 1, 2, 227, 4,
      \hE8, \h03, 0, 0, number, 0>>

TypeBytes == {\h46, \hC6, \h01, \h81, \h47, \h00}

\* what a read of service 4 can return: blocks before position k are
\* records, the block at k has recorded-by 0, and the blocks after it are
\* records again (later = TRUE) or all zero
HistoryInput(k, later, type_byte) ==
    [i \in 1..HistoryBlocks |->
        IF i - 1 < k THEN TxBlock(\h16, IF i % 2 = 1 THEN type_byte ELSE \h01, i)
        ELSE IF i - 1 = k THEN TxBlock(\h00, type_byte, i)
        ELSE IF later THEN TxBlock(\hC7, type_byte, i)
        ELSE ZeroBlock]
HistoryInputs ==
    {HistoryInput(k, later, t) : k \in 0..HistoryBlocks, later \in BOOLEAN, t \in TypeBytes}

\* blocks of service 7
GateBlockA == <<\hA0, \h00, 1, 1, \h12, \h34, \h2E, \h8F, \h09, \h30, \hD2, 0, 0, 0, 1, 2>>
GateBlockB == <<\h20, \h41, 9, 9, \hAB, \hCD, \h2E, \h90, \h18, \h05, 0, 0, \h64, 0, 0, 0>>
GateInputs ==
    {[i \in 1..GateBlocks |-> b[i]] :
        b \in [1..GateBlocks -> {ZeroBlock, GateBlockA, GateBlockB}]}

\* identifiers: every 16-bit value in bytes 4-5, and other heads, tails and
\* lengths
IdiOf(head, v, tail) == head \o <<v \div 256, v % 256>> \o <<tail \div 256, tail % 256>>
IdiInputs ==
    {IdiOf(<<\h01, \h23, \hAB, \hEF>>, v, 12345) : v \in Word}
    \cup {IdiOf(head, 12047, tail) :
            head \in {<<0, 0, 0, 0>>, <<255, 255, 255, 255>>},
            tail \in {0, 9, 65535}}
    \cup {SubSeq(IdiOf(<<1, 2, 3, 4>>, 12047, 7) \o <<9, 9>>, 1, n) : n \in 0..10}

\* completion results: each key missing, null, empty or one of two texts
IdTexts == {Absent, Null, Str(<<>>), Str(Id1), Str(Id2)}
ParamTexts == {Absent, Null, Str(<<>>), Str(<<"a", "b", "C", "D">>), Str(<<"E", "F", "0", "1">>)}
SystemInfoInputs ==
    {Obj([issue_id |-> a, idi |-> b, issue_parameter |-> c, pmi |-> d]) :
        a \in IdTexts, b \in IdTexts, c \in ParamTexts, d \in ParamTexts}

IdleDecode == [fn |-> "-", tables |-> CodeTables, input |-> <<>>, out |-> <<>>]

InitDecode ==
    /\ InitClient
    /\ tag = Tag1
    /\ rb = NoRead
    /\ cd = NoTap
    /\ dec = IdleDecode

Decoded(fn, tables, input, out) ==
    /\ dec.fn = "-"
    /\ dec' = [fn |-> fn, tables |-> tables, input |-> input, out |-> out]
    /\ UNCHANGED <<clientVars, rb, cd>>

\* one of the *_to_str functions is called
TypeToStr(name, code) ==
    LET got == type_to_str(dec.tables, name, code)
    IN  Decoded("type_to_str", [dec.tables EXCEPT ![name] = got.mapping],
                <<name, code>>, got.label)

\* int_to_date is called with (year << 9) | (month << 5) | day
IntToDate(year, month, day) ==
    LET value == BitOr(BitOr(year * 512, month * 32), day)
    IN  Decoded("int_to_date", dec.tables,
                [value |-> value, year |-> year, month |-> month, day |-> day],
                int_to_date(value))

IdiBytesToStr(idi_bytes) ==
    Decoded("idi_bytes_to_str", dec.tables, idi_bytes, idi_bytes_to_str(idi_bytes))

BuildSystemInfo(auth_result) ==
    Decoded("build_system_info", dec.tables, auth_result, build_system_info(auth_result))

ReadTransactionHistory(blocks) ==
    LET got == read_transaction_history(dec.tables, blocks, 0)
    IN  Decoded("read_transaction_history", got.tables, blocks, got.entries)

ReadGateInOutInformation(blocks) ==
    LET got == read_gate_in_out_information(dec.tables, blocks, 0)
    IN  Decoded("read_gate_in_out_information", got.tables, blocks, got.entries)

\* the value is handed to the caller; the dictionaries stay
DecodeReturns ==
    /\ dec.fn \notin {"-"}
    /\ dec' = [IdleDecode EXCEPT !.tables = dec.tables]
    /\ UNCHANGED <<clientVars, rb, cd>>

\* the inputs of the next call: none while a call is in progress
Inputs(S) == IF dec.fn = "-" THEN S ELSE {}

NextDecode ==
    \/ \E name \in Inputs(TableNames), code \in Byte : TypeToStr(name, code)
    \/ \E year \in Inputs(Years), month \in Months, day \in Days :
           IntToDate(year, month, day)
    \/ \E idi_bytes \in Inputs(IdiInputs) : IdiBytesToStr(idi_bytes)
    \/ \E auth_result \in Inputs(SystemInfoInputs) : BuildSystemInfo(auth_result)
    \/ \E blocks \in Inputs(HistoryInputs) : ReadTransactionHistory(blocks)
    \/ \E blocks \in Inputs(GateInputs) : ReadGateInOutInformation(blocks)
    \/ DecodeReturns

SpecDecode == InitDecode /\ [][NextDecode]_vars

(***************************************************************************)
(* Properties of the client.                                               *)
(***************************************************************************)
\* the reply held in `reply` is the one the post() call of this moment read
Answered == Len(attempts) > 0 /\ attempts[Len(attempts)].out = "answered"

\* this step is an HTTP attempt that read a reply (reply' is that reply)
ReplyRead ==
    /\ Len(attempts') = Len(attempts) + 1
    /\ attempts'[Len(attempts')].out = "answered"

\* this step is a call of the named operation
Called(name) == nOps' = nOps + 1 /\ op' = name

\* an application-level error: HTTP status >= 400, or a body with "error"
IsAppError(r) == r.status >= 400 \/ (r.valid /\ r.error # Absent)
\* a reply _post returns to the protocol
IsResponse(r) == r.status < 400 /\ r.valid /\ r.error = Absent

PostEvent(path, kind) == [ev |-> "post", path |-> path, kind |-> kind]
CardEvent == [ev |-> "card", path |-> "-", kind |-> "-"]

\* C1: encryption_exchange called while authenticated is false raises
\* FelicaRemoteClientError at once: no request is posted, no frame goes to the
\* card, and session_id, authenticated and the connection are unchanged.
C1_PreconditionFailsWithoutIO ==
    [][(Called("encryption_exchange") /\ ~authenticated) =>
          /\ pc' = "idle"
          /\ ret'.outcome = "raise"
          /\ ret'.exc = "FelicaRemoteClientError"
          /\ log' = <<>>
          /\ attempts' = <<>>
          /\ exchanged' = NoExchange
          /\ session_id' = session_id
          /\ authenticated' = authenticated
          /\ connection' = connection]_vars

C1_Witness ==
    /\ op = "encryption_exchange"
    /\ pc = "idle"
    /\ ret.msg = "mutual authentication must be completed first"
    /\ ~authenticated
    /\ log = <<>>

\* the events of a mutual authentication that went through k auth steps
RECURSIVE AuthLog(_)
AuthLog(k) ==
    IF k <= 0 THEN <<PostEvent("/mutual-authentication", "init")>>
    ELSE AuthLog(k - 1)
         \o <<CardEvent, PostEvent("/mutual-authentication", "card_response")>>

\* C2: in mutual_authentication every auth1/auth2 response is followed by
\* exactly one card exchange of that response's frame and then exactly one
\* POST to /mutual-authentication carrying the card's response; on "complete"
\* authenticated becomes true and the response's result map is returned as
\* sent, with no further card exchange or POST.
C2_AuthRoundsThenComplete ==
    op = "mutual_authentication" =>
        /\ pc = "post" => log = AuthLog(rounds)
        /\ (Answered /\ reply \in AuthStepReplies) =>
              \/ pc = "card"
              \/ /\ pc = "idle"
                 /\ ret.exc = "CardTransportError"
                 /\ exchanged.frame = command.frame
                 /\ log = Append(AuthLog(rounds - 1), CardEvent)
        /\ pc = "card" =>
              /\ Answered
              /\ IsResponse(reply)
              /\ reply.step \in {Str("auth1"), Str("auth2")}
              /\ log = AuthLog(rounds - 1)
              /\ command.frame = FromHex(reply.command[2].frame[2])
        /\ (pc = "post" /\ rounds > 0) =>
              /\ exchanged.ok
              /\ exchanged.frame = command.frame
              /\ req.path = "/mutual-authentication"
              /\ req.kind = "card_response"
              /\ req.card_response = Str(ToHex(exchanged.response))
        /\ (Answered /\ IsResponse(reply) /\ reply.step = Str("complete")) =>
              /\ pc = "idle"
              /\ ret.outcome = "return"
        /\ (pc = "idle" /\ ret.outcome = "return") =>
              /\ Answered
              /\ reply.step = Str("complete")
              /\ authenticated
              /\ log = AuthLog(rounds)
              /\ reply.result # Absent => ret.result = reply.result

\* the scripted scenario: auth1 with frame 0A0B, the card answers FF, complete
C2_Witness ==
    /\ op = "mutual_authentication"
    /\ pc = "idle"
    /\ ret.outcome = "return"
    /\ ret.result = Result1
    /\ authenticated
    /\ rounds = 1
    /\ log = AuthLog(1)
    /\ Len(log) = 3
    /\ exchanged.frame = <<10, 11>>
    /\ exchanged.response = <<255>>
    /\ req.card_response = Str(<<"f", "f">>)

\* C3: a successful encryption_exchange is exactly: POST {session_id,
\* cmd_code, payload, timeout?}, one card exchange of the frame that POST
\* returned, POST {session_id, card_response}; it returns the bytes decoded
\* from "response" of the second reply.
C3_ExchangeEvents ==
    op = "encryption_exchange" =>
        /\ (pc = "post" /\ phase = "first") =>
              /\ log = <<PostEvent("/encryption-exchange", "command")>>
              /\ \E a \in ExchangeArgs :
                    /\ req.payload = Str(ToHex(a.payload))
                    /\ req.timeout = IF a.timeout = Null THEN Absent ELSE a.timeout
              /\ req.cmd_code = Num(READ_COMMAND_CODE)
              /\ req.session_id = session_id
              /\ req.path = "/encryption-exchange"
        /\ pc = "card" =>
              /\ phase = "first"
              /\ Answered
              /\ log = <<PostEvent("/encryption-exchange", "command")>>
              /\ command.frame = FromHex(reply.command[2].frame[2])
        /\ phase = "final" =>
              /\ log = <<PostEvent("/encryption-exchange", "command"), CardEvent,
                         PostEvent("/encryption-exchange", "card_response")>>
              /\ exchanged.ok
              /\ exchanged.frame = command.frame
              /\ req.path = "/encryption-exchange"
              /\ req.kind = "card_response"
              /\ req.card_response = Str(ToHex(exchanged.response))
        /\ (pc = "idle" /\ ret.outcome = "return") =>
              /\ phase = "final"
              /\ Answered
              /\ reply.response # Absent
              /\ ret.data = FromHex(reply.response[2])

C3_Witness ==
    /\ op = "encryption_exchange"
    /\ pc = "idle"
    /\ ret.outcome = "return"
    /\ ret.data = <<0, 255>>
    /\ Len(log) = 3
    /\ exchanged.frame = <<10, 11>>

\* the attempts of the post() call of this moment that failed at transport level
Failed(i) == attempts[i].out \in {"unsent", "lost"}
\* the attempts whose request reached the authority
Delivered == {i \in 1..Len(attempts) : attempts[i].out \in {"lost", "answered"}}

\* C5: in post(), an attempt that fails at transport level closes the
\* connection and is followed by exactly one more attempt, made on a newly
\* established connection; if that one fails too the call raises
\* FelicaRemoteClientError "failed to reach server"; no call makes more than
\* two attempts.
C5_RetryOnceOnNewConnection ==
    /\ Len(attempts) <= 2
    /\ Len(attempts) = 2 => (Failed(1) /\ attempts[2].fresh)
    /\ (Len(attempts) = 1 /\ Failed(1)) => (pc = "post" /\ connection = "none")
    /\ (Len(attempts) = 2 /\ Failed(2)) =>
          /\ pc = "idle"
          /\ connection = "none"
          /\ ret.outcome = "raise"
          /\ ret.exc = "FelicaRemoteClientError"
          /\ ret.msg = "failed to reach server"

\* the first attempt, on a kept connection, failed; the second, on a new
\* one, failed too
C5_Witness ==
    /\ Len(attempts) = 2
    /\ ~attempts[1].fresh
    /\ Failed(1)
    /\ Failed(2)
    /\ ret.msg = "failed to reach server"

\* C6: in both protocols an error response (a body with "error", whatever the
\* status) whose error object holds a code ends the operation with
\* Type3TagCommandError carrying that code; one without a code (missing or
\* null) ends it with FelicaRemoteClientError carrying the authority's message.
C6_ErrorResponseClassified ==
    (Answered /\ reply.valid /\ reply.error # Absent) =>
        /\ pc = "idle"
        /\ ret.outcome = "raise"
        /\ IF reply.error[2].code[1] = "num"
           THEN /\ ret.exc = "Type3TagCommandError"
                /\ ret.code = reply.error[2].code
           ELSE /\ ret.exc = "FelicaRemoteClientError"
                /\ reply.error[2].message # Absent => ret.text = reply.error[2].message

\* a code of 0 in a 200 reply to the card_response request of an
\* encryption_exchange
C6_Witness ==
    /\ op = "encryption_exchange"
    /\ phase = "final"
    /\ Answered
    /\ reply.status = 200
    /\ reply.error = Err(Num(0), Str("m"))
    /\ ret.exc = "Type3TagCommandError"
    /\ ret.code = Num(0)

\* C7 as claimed: when the authority answers a step with an application-level
\* error, exactly one request was delivered for the step, the operation ends
\* with the error and no POST or card exchange follows.
C7_ExactlyOneDelivered ==
    (Answered /\ IsAppError(reply)) =>
        /\ Cardinality(Delivered) = 1
        /\ pc = "idle"
        /\ ret.outcome = "raise"

\* C7 as amended: the attempt answered with an application-level error is the
\* last attempt of its post() call and the only one answered (post() made at
\* most one attempt before it, and that one failed at transport level, written
\* or not); the operation ends with the error, and the POST that drew it is
\* the last event of the operation.
C7_NoRetryAfterErrorReply ==
    (Answered /\ IsAppError(reply)) =>
        /\ pc = "idle"
        /\ ret.outcome = "raise"
        /\ ret.exc \in {"Type3TagCommandError", "FelicaRemoteClientError"}
        /\ Len(attempts) <= 2
        /\ \A i \in 1..Len(attempts) : attempts[i].out = "answered" <=> i = Len(attempts)
        /\ Cardinality(Delivered) <= 2
        /\ log # <<>>
        /\ log[Len(log)] = PostEvent(req.path, req.kind)

\* an error reply to the retry of a request whose first attempt was written
\* and then failed
C7_Witness ==
    /\ Answered
    /\ IsAppError(reply)
    /\ Len(attempts) = 2
    /\ attempts[1].out = "lost"
    /\ pc = "idle"
    /\ ret.outcome = "raise"

\* C8: every response _post returns, in either protocol, leaves session_id
\* equal to the response's session_id when that is a non-empty string and
\* unchanged otherwise (missing, null and "" never clear it).
C8_SessionIdAdoptedOrKept ==
    [][(ReplyRead /\ IsResponse(reply')) =>
          session_id' = IF reply'.session_id \in {Str(x) : x \in SessionIds}
                        THEN reply'.session_id
                        ELSE session_id]_vars

\* within the first operation the identifier went from none to s1 (sent with
\* the follow-up request) and then to s2: replaced twice in one operation
C8_Witness ==
    /\ nOps = 1
    /\ op = "mutual_authentication"
    /\ req.kind = "card_response"
    /\ req.session_id = Str("s1")
    /\ session_id = Str("s2")

\* C9: in mutual_authentication a response whose step is not auth1, auth2 or
\* complete (a missing step too) raises FelicaRemoteClientError with no card
\* exchange and no further POST, and nothing but a "complete" response changes
\* authenticated during the call.
C9_UnknownStepIsFatal ==
    [][/\ (/\ ReplyRead
           /\ op = "mutual_authentication"
           /\ IsResponse(reply')
           /\ reply'.step \notin {Str("auth1"), Str("auth2"), Str("complete")}) =>
              /\ pc' = "idle"
              /\ ret'.outcome = "raise"
              /\ ret'.exc = "FelicaRemoteClientError"
              /\ ret'.msg = "unexpected server response"
              /\ log' = log
              /\ exchanged' = exchanged
              /\ authenticated' = authenticated
       /\ (op = "mutual_authentication" /\ pc # "idle"
           /\ authenticated' # authenticated) =>
              (ReplyRead /\ reply'.step = Str("complete"))]_vars

\* a response without a step, after one auth round
C9_Witness ==
    /\ op = "mutual_authentication"
    /\ Answered
    /\ IsResponse(reply)
    /\ reply.step = Absent
    /\ rounds = 1
    /\ ret.msg = "unexpected server response"
    /\ ~authenticated

\* C10: an encryption_exchange whose final response has no "response" key
\* raises FelicaRemoteClientError: it returns nothing and raises nothing else.
C10_MissingResponseIsProtocolError ==
    (/\ op = "encryption_exchange"
     /\ phase = "final"
     /\ Answered
     /\ IsResponse(reply)
     /\ reply.response = Absent) =>
        /\ pc = "idle"
        /\ ret.outcome = "raise"
        /\ ret.exc = "FelicaRemoteClientError"
        /\ ret.msg = "unexpected server response"
        /\ ret.data = <<>>

C10_Witness ==
    /\ op = "encryption_exchange"
    /\ phase = "final"
    /\ Answered
    /\ reply = EmptyBody
    /\ ret.exc = "FelicaRemoteClientError"

\* C11: reset(tag, session_id) sets authenticated to false, makes the given
\* tag and the given session_id (None by default) the client's, and leaves the
\* connection as it was; from then on authenticated becomes true only when a
\* mutual_authentication reads a 'complete' response, every
\* encryption_exchange called before that fails the precondition, and the
\* next mutual_authentication sends the new tag's idm and pmm.
C11_ResetClearsFlagKeepsChannel ==
    /\ [][Called("reset") =>
             /\ authenticated' = FALSE
             /\ tag' = args'.tag
             /\ session_id' = args'.session_id
             /\ connection' = connection
             /\ pc' = "idle"
             /\ log' = <<>>]_vars
    /\ [][(~authenticated /\ authenticated') =>
             /\ op = "mutual_authentication"
             /\ ReplyRead
             /\ IsResponse(reply')
             /\ reply'.step = Str("complete")]_vars
    /\ [][(~authenticated /\ Called("encryption_exchange")) =>
             /\ ret'.msg = "mutual authentication must be completed first"
             /\ pc' = "idle"
             /\ log' = <<>>]_vars
    /\ [][Called("mutual_authentication") =>
             /\ req'.idm = Str(ToHex(tag.idm))
             /\ req'.pmm = Str(ToHex(tag.pmm))
             /\ req'.session_id = session_id]_vars

\* a reset to the other card with an identifier, on an open connection,
\* followed by an encryption_exchange that is refused
C11_Witness ==
    /\ op = "encryption_exchange"
    /\ ret.msg = "mutual authentication must be completed first"
    /\ nOps = 3
    /\ connection = "open"
    /\ session_id = Str("s1")
    /\ tag = Tag2
    /\ ~authenticated

\* this step ends the operation in progress with an exception
Aborts == pc # "idle" /\ pc' = "idle" /\ ret'.outcome = "raise"

\* C13 as stated: a step of mutual_authentication or encryption_exchange
\* that aborts changes neither authenticated nor session_id, and a
\* mutual_authentication that aborts does not leave authenticated changed.
C13_AbortChangesNothing ==
    /\ [][Aborts => (authenticated' = authenticated /\ session_id' = session_id)]_vars
    /\ [][(pc # "idle" /\ authenticated' # authenticated) =>
             (pc' = "idle" /\ ret'.outcome = "return")]_vars

\* C13, amended: an aborting step never changes authenticated, and
\* authenticated changes inside an operation only in the step that returns;
\* session_id is unchanged when the abort is a transport failure, an error
\* reply or a failed card exchange, and when the abort is raised on a
\* response that passed the error check (unknown step, missing or invalid
\* command, missing or invalid response field) session_id is that response's
\* non-empty identifier if it has one.
C13_AbortKeepsFlagAdoptsIdentifier ==
    /\ [][Aborts =>
             /\ authenticated' = authenticated
             /\ session_id' =
                   IF /\ ReplyRead
                      /\ IsResponse(reply')
                      /\ reply'.session_id \in {Str(x) : x \in SessionIds}
                   THEN reply'.session_id
                   ELSE session_id]_vars
    /\ [][(pc # "idle" /\ authenticated' # authenticated) =>
             (pc' = "idle" /\ ret'.outcome = "return")]_vars

\* the first mutual_authentication ended on a response with an unknown step
\* that carried an identifier: the call raised, the identifier is stored
C13_Witness ==
    /\ nOps = 1
    /\ op = "mutual_authentication"
    /\ ret.outcome = "raise"
    /\ ret.msg = "unexpected server response"
    /\ reply.session_id = Str("s1")
    /\ session_id = Str("s1")
    /\ ~authenticated

(***************************************************************************)
(* Properties of the reader.                                               *)
(***************************************************************************)
\* C4: read_blocks over N indices whose chunk responses are all valid makes
\* exactly ceil(N / 12) encryption_exchange calls, the k-th asking for the
\* k-th run of at most 12 consecutive input indices, and returns exactly N
\* blocks, the i-th being the block of the i-th input index; for N = 0 it
\* returns [] and makes no call.
C4_ChunkedReadInOrder ==
    (rb.pc = "done" /\ rb.ret.outcome = "return") =>
        LET N == Len(rb.index_list)
            nCalls == (N + 11) \div 12
        IN  /\ Len(rb.calls) = nCalls
            /\ \A k \in 1..nCalls :
                  LET first == 12 * (k - 1)
                      count == IF N - first < 12 THEN N - first ELSE 12
                  IN  /\ count >= 1
                      /\ Len(rb.calls[k]) = 1 + 2 * count
                      /\ rb.calls[k][1] = count
                      /\ \A j \in 1..count :
                            /\ rb.calls[k][2 * j] = 128 + rb.service_index
                            /\ rb.calls[k][2 * j + 1] = rb.index_list[first + j]
            /\ Len(rb.ret.value) = N
            /\ \A i \in 1..N :
                  rb.ret.value[i] = CardBlock(rb.service_index, rb.index_list[i])
            /\ N = 0 => (rb.ret.value = <<>> /\ rb.calls = <<>>)

\* 25 indices in descending order: three calls (12, 12, 1), 25 blocks
C4_Witness ==
    /\ rb.pc = "done"
    /\ rb.ret.outcome = "return"
    /\ Len(rb.index_list) = 25
    /\ rb.index_list[1] = 24
    /\ Len(rb.calls) = 3
    /\ Len(rb.ret.value) = 25
    /\ rb.ret.value[25] = CardBlock(rb.service_index, 0)

\* the number of elements asked for by the last call of read_blocks
LastCount == rb.calls[Len(rb.calls)][1]

\* C14: when the response to a chunk declares, in its third byte, a block
\* count other than the number of elements asked for in that chunk,
\* read_blocks ends there with an exception and returns nothing, the blocks
\* of the chunks before it included.
C14_CountMismatchFailsWholeRead ==
    (/\ rb.pc \in {"reading", "done"}
     /\ rb.answered
     /\ Len(rb.response) >= 3
     /\ rb.response[3] # LastCount) =>
        /\ rb.pc = "done"
        /\ rb.ret.outcome = "raise"
        /\ rb.ret.value = <<>>

\* the third chunk (1 element) is answered with count 0 after two valid
\* chunks of 12 blocks
C14_Witness ==
    /\ rb.pc = "done"
    /\ Len(rb.calls) = 3
    /\ Len(rb.blocks) = 24
    /\ rb.answered
    /\ rb.response[1] = 0
    /\ rb.response[3] = 0
    /\ LastCount = 1
    /\ rb.ret.msg = "block count"
    /\ rb.ret.value = <<>>

\* C15: a chunk response of at least 3 bytes whose first byte is not zero
\* makes _read_elements raise the card error with the status code
\* byte0 * 256 + byte1, whatever its block count and length; a response whose
\* first byte is zero, whose count matches and whose tail is long enough is
\* accepted whatever its second byte.
C15_StatusCheckedFirst ==
    (rb.pc \in {"reading", "done"} /\ rb.answered /\ Len(rb.response) >= 3) =>
        /\ rb.response[1] # 0 =>
              /\ rb.pc = "done"
              /\ rb.ret.outcome = "raise"
              /\ rb.ret.msg = "card error"
              /\ rb.ret.code = rb.response[1] * 256 + rb.response[2]
              /\ rb.ret.value = <<>>
        /\ (/\ rb.response[1] = 0
            /\ rb.response[3] = LastCount
            /\ Len(rb.response) - 3 >= 16 * LastCount) =>
              rb.ret.outcome # "raise"

\* status 0x01A6 in a response of 3 bytes that declares no block, for a chunk
\* of 12 elements
C15_Witness ==
    /\ rb.pc = "done"
    /\ rb.answered
    /\ rb.response = <<1, 166, 0>>
    /\ LastCount = 12
    /\ rb.ret.msg = "card error"
    /\ rb.ret.code = 422

\* C16: a chunk response shorter than 3 bytes fails; with first byte zero and
\* the count n asked for, a tail (the bytes after the first 3) shorter than
\* 16 * n fails and nothing is returned, and a tail of 16 * n bytes or more is
\* accepted, the bytes beyond 16 * n being ignored: the i-th block of the chunk
\* (from 0) is the response's bytes 3 + 16 i up to 3 + 16 (i + 1), 16 bytes.
C16_TailSlicedInSixteens ==
    (rb.pc \in {"reading", "done"} /\ rb.answered) =>
        LET n == LastCount
            tail == Len(rb.response) - 3
            failed == rb.pc = "done" /\ rb.ret.outcome = "raise" /\ rb.ret.value = <<>>
        IN  /\ Len(rb.response) < 3 => failed
            /\ (/\ Len(rb.response) >= 3
                /\ rb.response[1] = 0
                /\ rb.response[3] = n
                /\ tail < 16 * n) => failed
            /\ (/\ Len(rb.response) >= 3
                /\ rb.response[1] = 0
                /\ rb.response[3] = n
                /\ tail >= 16 * n) =>
                  /\ rb.ret.outcome # "raise"
                  /\ Len(rb.blocks) >= n
                  /\ \A i \in 0..(n - 1) :
                        LET block == rb.blocks[Len(rb.blocks) - n + i + 1]
                        IN  /\ Len(block) = 16
                            /\ \A j \in 1..16 : block[j] = rb.response[3 + 16 * i + j]
                  /\ rb.pc = "done" => rb.ret.value = rb.blocks

\* the last chunk (1 block) of a read of 25 is answered with two bytes more
\* than its block: the read returns 25 blocks
C16_Witness ==
    /\ rb.pc = "done"
    /\ rb.ret.outcome = "return"
    /\ rb.answered
    /\ LastCount = 1
    /\ Len(rb.response) = 3 + 16 + 2
    /\ Len(rb.ret.value) = 25
    /\ Len(rb.ret.value[25]) = 16

\* the addresses of the k-th chunk (from 1) of the read are all in range
InRange(k) ==
    /\ rb.service_index \in 0..15
    /\ \A i \in (12 * (k - 1) + 1)..Min(12 * k, Len(rb.index_list)) :
          rb.index_list[i] \in 0..255

Posts(path) ==
    /\ log' # log
    /\ log' # <<>>
    /\ log'[Len(log')] = PostEvent(path, log'[Len(log')].kind)

\* C12: in a full card read (collect in the GUI, on_connect in the CLI) a
\* request goes to /encryption-exchange only after mutual_authentication
\* of the same read has read a response with step 'complete'; and the steps
\* follow one another: a request is sent only at the start of an operation or
\* after the card has answered the exchange before it, and a frame goes to
\* the card only when the reply to the request before it has been read.
C12_AuthCompletesBeforeExchanges ==
    /\ [][Posts(EE_PATH) =>
             /\ cd'.pc = "read"
             /\ cd'.auth_step = Str("complete")
             /\ authenticated]_vars
    /\ [][(log' # log /\ log' # <<>> /\ log'[Len(log')].ev = "post") =>
             \/ pc = "idle" /\ Len(log') = 1
             \/ /\ pc = "card"
                /\ exchanged'.ok
                /\ Len(log') = Len(log) + 2
                /\ log'[Len(log') - 1] = CardEvent]_vars
    /\ [][(pc # "card" /\ pc' = "card") => (pc = "post" /\ ReplyRead)]_vars

\* the second chunk of the history read is being posted
C12_Witness ==
    /\ cd.pc = "read"
    /\ cd.auth_step = Str("complete")
    /\ pc = "post"
    /\ phase = "final"
    /\ rb.service_index = 4
    /\ Len(rb.calls) = 2
    /\ req.path = EE_PATH

\* the code the authority forwards in the reply r (Null: none)
ForwardedCode(r) ==
    IF r.valid /\ r.error # Absent THEN Get(r.error[2].code) ELSE Null

\* the three classes of failure, by their cause
\* the authority was not reached: every attempt of the post() call failed
ConnectivityFailure ==
    /\ ret.outcome = "raise"
    /\ Len(attempts) = MaxAttempts
    /\ \A i \in 1..Len(attempts) : Failed(i)
\* the authority forwarded a code of the card
ForwardedRejection ==
    ret.outcome = "raise" /\ Answered /\ ForwardedCode(reply) # Null
\* the card-read response starts with non-zero status bytes
StatusRejection ==
    /\ rb.pc = "done"
    /\ rb.answered
    /\ Len(rb.response) >= 3
    /\ rb.response[1] # 0
\* a well-formed response of the authority with an unexpected step or without
\* the field the protocol needs
ProtocolFailure ==
    /\ ret.outcome = "raise"
    /\ Answered
    /\ IsResponse(reply)
    /\ \/ op = "mutual_authentication"
          /\ \/ Get(reply.step) \notin AuthSteps
             \/ reply.command = Absent
             \/ reply.command[2].frame = Absent
       \/ op = "encryption_exchange"
          /\ \/ phase = "first" /\ (reply.command = Absent \/ reply.command[2].frame = Absent)
             \/ phase = "final" /\ reply.response = Absent

\* the kind the client gives a protocol failure and a forwarded code, read
\* off the client's own functions
ProtocolKind == mutual_authentication_step(EmptyBody, FALSE, Null).ret.exc
ForwardedKind == post_reply(Reply(200, Err(Num(420), Absent), Absent, Absent, Absent, Absent, Absent)).exc

IsPrefix(seq, plan) ==
    Len(seq) <= Len(plan) /\ \A i \in 1..Len(seq) : seq[i] = plan[i]

\* the read in progress is the last one recorded for this tap and asks for
\* the blocks 0 .. n-1 of its service
ReadInProgressIsLastOfReads ==
    cd.pc = "read" =>
       /\ cd.reads # <<>>
       /\ rb.service_index = cd.reads[Len(cd.reads)][1]
       /\ rb.index_list = [i \in 1..cd.reads[Len(cd.reads)][2] |-> i - 1]

\* C19 (as stated): the block reads of a card read are issued in the order
\* service 0 (4 blocks), 1 (1), 2 (1), 3 (3), 4 (20), 6 (3), 7 (3), 8 (2),
\* each once, and a card read that succeeds has issued them all.
C19_OneOrderForAll ==
    LET order == << <<0, 4>>, <<1, 1>>, <<2, 1>>, <<3, 3>>, <<4, 20>>, <<6, 3>>,
                    <<7, 3>>, <<8, 2>> >>
    IN  cd.pc # "off" =>
          /\ IsPrefix(cd.reads, order)
          /\ ReadInProgressIsLastOfReads
          /\ cd.out = "data" => cd.reads = order

\* C19 (amended): the CLI issues the reads in the order service 0 (blocks
\* 0-3), 1 (0), 2 (0), 3 (0-2), 4 (0-19), 6 (0-2), 7 (0-2), 8 (0-1); the GUI
\* issues the same reads with service 3 before service 2; service 5 is never
\* read, each read is issued once in a session, and a card read that
\* succeeds has issued them all.
C19_OrderPerFrontend ==
    LET cli == << <<0, 4>>, <<1, 1>>, <<2, 1>>, <<3, 3>>, <<4, 20>>, <<6, 3>>,
                  <<7, 3>>, <<8, 2>> >>
        gui == << <<0, 4>>, <<1, 1>>, <<3, 3>>, <<2, 1>>, <<4, 20>>, <<6, 3>>,
                  <<7, 3>>, <<8, 2>> >>
        order == IF cd.frontend = "cli" THEN cli ELSE gui
    IN  cd.pc # "off" =>
          /\ IsPrefix(cd.reads, order)
          /\ ReadInProgressIsLastOfReads
          /\ cd.out = "data" => cd.reads = order
          /\ \A i \in 1..Len(cd.reads) : cd.reads[i][1] # 5
          /\ cd.reads # <<>> => authenticated /\ cd.auth_step = Str("complete")

\* a card read of the GUI has succeeded, service 3 read before service 2
C19_Witness ==
    /\ cd.frontend = "gui"
    /\ cd.out = "data"
    /\ Len(cd.reads) = 8
    /\ cd.reads[3] = <<3, 3>>
    /\ cd.reads[4] = <<2, 1>>
    /\ rb.service_index = 8

\* mutual_authentication has raised, or the block read in progress fails:
\* encryption_exchange has raised or its response does not pass the checks
\* of _read_elements
CollectFails ==
    /\ pc = "idle"
    /\ \/ cd.pc = "auth" /\ ret.outcome = "raise"
       \/ /\ cd.pc = "read"
          /\ \/ ret.outcome = "raise"
             \/ read_elements_response(Len(chunk_of(rb.index_list, rb.chunk_start)),
                                       ret.data).outcome = "raise"

\* C20: when mutual authentication or a block read fails in a card read, the
\* read ends with an exception and no card data, no request and no block
\* read follows until the next tap, and nothing is handed to the UI thread
\* for that tap: a callback is scheduled only by a read that succeeded after
\* all its block reads, and the displayed data changes only when such a
\* callback runs, to a complete snapshot.
C20_FailureAbortsWholeRead ==
    /\ [][CollectFails =>
             /\ log' = log
             /\ cd'.reads = cd.reads
             /\ cd'.scheduled <= cd.scheduled
             /\ cd'.out # "data"
             /\ cd'.pc # cd.pc =>
                   /\ cd'.pc = "wait"
                   /\ cd'.out = "raise"
                   /\ cd'.scheduled = cd.scheduled
                   /\ cd'.shown = cd.shown
                   /\ rb'.pc = "done"
                   /\ rb'.ret.outcome # "return"]_vars
    /\ [][(cd.pc # "off" /\ cd.out = "raise") =>
             /\ cd.pc = "wait"
             /\ cd'.scheduled <= cd.scheduled
             /\ \/ log' = log /\ cd'.reads = cd.reads /\ cd'.out = "raise"
                \/ cd'.reads = <<>> /\ cd'.pc \in {"wait", "auth"}]_vars
    /\ [][(cd.pc # "off" /\ cd'.scheduled > cd.scheduled) =>
             /\ cd.frontend = "gui"
             /\ cd.pc = "read"
             /\ ~CollectFails
             /\ cd'.out = "data"
             /\ Len(cd.reads) = Len(ReadPlanGui)
             /\ rb'.ret.outcome = "return"]_vars
    /\ [][(cd.pc # "off" /\ cd'.shown # cd.shown) =>
             /\ cd.scheduled > 0
             /\ cd'.scheduled = cd.scheduled - 1
             /\ cd'.shown = "snapshot"]_vars

\* the GUI shows the snapshot of an earlier tap, and the read of this tap
\* was aborted by the card's status in its fifth block read
C20_Witness ==
    /\ cd.frontend = "gui"
    /\ cd.shown = "snapshot"
    /\ cd.scheduled = 0
    /\ cd.pc = "wait"
    /\ cd.out = "raise"
    /\ Len(cd.reads) = 5
    /\ StatusRejection

(***************************************************************************)
(* Properties of the decoding functions.                                   *)
(***************************************************************************)
\* the index of the first block whose byte 0 is zero; the number of blocks
\* when there is none
Sentinel(blocks) ==
    IF \E i \in 1..Len(blocks) : blocks[i][1] = 0
    THEN (CHOOSE i \in 1..Len(blocks) :
             /\ blocks[i][1] = 0
             /\ \A j \in 1..(i - 1) : blocks[j][1] # 0) - 1
    ELSE Len(blocks)

\* C21: the history decoded from the 20 blocks of service 4 has exactly k
\* entries, k the index of the first block whose recorded-by byte is zero
\* (20 when there is none); entry i has index i and is decoded from block i;
\* nothing after the sentinel is decoded, zero or not.
C21_HistoryStopsAtSentinel ==
    dec.fn = "read_transaction_history" =>
       LET blocks == dec.input
           k == Sentinel(blocks)
       IN  /\ Len(blocks) = HistoryBlocks
           /\ Len(dec.out) = k
           /\ \A i \in 1..Len(dec.out) :
                 /\ dec.out[i].index = i - 1
                 /\ dec.out[i].recorded_by_code = blocks[i][1]
                 /\ dec.out[i].recorded_by_code # 0
                 /\ dec.out[i].transaction_number = blocks[i][14] * 256 + blocks[i][15]

\* blocks 0-4 are records, block 5 has recorded-by 0, the blocks after it
\* are records again: 5 entries
C21_Witness ==
    /\ dec.fn = "read_transaction_history"
    /\ Sentinel(dec.input) = 5
    /\ \A i \in 7..HistoryBlocks : dec.input[i][1] # 0
    /\ Len(dec.out) = 5
    /\ dec.out[5].index = 4

\* two decimal digits of a number below 100
TwoDigits(n) == <<DecChars[(n \div 10) + 1], DecChars[(n % 10) + 1]>>

\* C22: every entry of the history has as type code byte 1 of its block
\* without the top bit; when the code is 0x46 the entry has a transaction
\* time, the packed time of bytes 6-7 read big-endian, and no entry or exit
\* station; otherwise it has the entry station of bytes 6, 7 and the exit
\* station of bytes 8, 9 and no transaction time.
C22_TypeCodeSelectsShape ==
    dec.fn = "read_transaction_history" =>
       \A i \in 1..Len(dec.out) :
          LET e == dec.out[i]
              block == dec.input[i]
              v == block[7] * 256 + block[8]
          IN  /\ e.transaction_type_code = block[2] % 128
              /\ IF e.transaction_type_code = 70
                 THEN /\ "transaction_time" \in DOMAIN e
                      /\ e.transaction_time =
                            TwoDigits(v \div 2048) \o <<":">>
                            \o TwoDigits((v \div 32) % 64) \o <<":">>
                            \o TwoDigits((v % 32) * 2)
                      /\ "entry_station" \notin DOMAIN e
                      /\ "exit_station" \notin DOMAIN e
                 ELSE /\ "transaction_time" \notin DOMAIN e
                      /\ "entry_station" \in DOMAIN e
                      /\ "exit_station" \in DOMAIN e
                      /\ e.entry_station = format_station(block[7], block[8])
                      /\ e.exit_station = format_station(block[9], block[10])

\* a history whose first entry has type byte 0xC6 and carries a time, and
\* whose second entry has type byte 0x01 and carries the two stations
C22_Witness ==
    /\ dec.fn = "read_transaction_history"
    /\ Len(dec.out) >= 2
    /\ dec.input[1][2] = 198
    /\ dec.out[1].transaction_type_code = 70
    /\ "transaction_time" \in DOMAIN dec.out[1]
    /\ dec.out[2].transaction_type_code = 1
    /\ "exit_station" \in DOMAIN dec.out[2]

\* C23: for every code in 0..255 equipment_type_to_str,
\* transaction_type_to_str, pay_type_to_str and gate_instruction_type_to_str
\* return a label: the label of the table for a code the table has, and
\* otherwise a fallback label with the code as two uppercase hex digits
\* after 0x; and no decoding function changes a table.
C23_LookupNeverFails ==
    /\ dec.fn # "-" => dec.tables = CodeTables
    /\ (dec.fn = "type_to_str"
        /\ dec.input[1] \in {"equipment", "transaction", "pay", "gate_instruction"}) =>
          LET name == dec.input[1]
              code == dec.input[2]
          IN  /\ code \in Byte
              /\ dec.out # <<>>
              /\ code \in DOMAIN CodeTables[name] => dec.out = CodeTables[name][code]
              /\ code \notin DOMAIN CodeTables[name] =>
                    dec.out = <<"unknown", UnknownLabel[name], "(0x",
                                HexUpper[(code \div 16) + 1], HexUpper[(code % 16) + 1],
                                ")">>

\* pay_type_to_str(0x0A): a code the table does not have
C23_Witness ==
    /\ dec.fn = "type_to_str"
    /\ dec.input = <<"pay", 10>>
    /\ dec.out = <<"unknown", "pay type", "(0x", "0", "A", ")">>
    /\ dec.tables = CodeTables

\* C24: for year in 0..63, month in 0..15 and day in 0..31, int_to_date of
\* (year << 9) | (month << 5) | day is (year, month, day).
C24_PackedDateRoundTrip ==
    (dec.fn = "int_to_date" /\ dec.input.year \in 0..63) =>
       /\ dec.input.value = dec.input.year * 512 + dec.input.month * 32 + dec.input.day
       /\ dec.out = <<dec.input.year, dec.input.month, dec.input.day>>

\* the largest date of the range: year 63, month 15, day 31
C24_Witness ==
    /\ dec.fn = "int_to_date"
    /\ dec.input.value = 32767
    /\ dec.out = <<63, 15, 31>>

\* C25: idi_bytes_to_str of at least 8 bytes is 19 characters: bytes 0-3 in
\* uppercase hex, then the packed date of bytes 4-5 as int_to_date decodes
\* it, as two-digit year (year = value >> 9, to two digits), month and day,
\* then bytes 6-7 big-endian as five decimal digits; fewer than 8 bytes
\* raise ValueError.
C25_IdiTextAgreesWithPackedDate ==
    dec.fn = "idi_bytes_to_str" =>
       LET b == dec.input
           date == int_to_date(b[5] * 256 + b[6])
           tail == b[7] * 256 + b[8]
       IN  IF Len(b) < 8
           THEN dec.out.exc = "ValueError"
           ELSE /\ dec.out.exc = "-"
                /\ Len(dec.out.text) = 19
                /\ SubSeq(dec.out.text, 1, 8) =
                      [i \in 1..8 |->
                          IF i % 2 = 1 THEN HexUpper[(b[(i + 1) \div 2] \div 16) + 1]
                          ELSE HexUpper[(b[i \div 2] % 16) + 1]]
                /\ SubSeq(dec.out.text, 9, 14) =
                      TwoDigits(date[1] % 100) \o TwoDigits(date[2]) \o TwoDigits(date[3])
                /\ SubSeq(dec.out.text, 15, 19) =
                      <<DecChars[(tail \div 10000) + 1], DecChars[((tail \div 1000) % 10) + 1],
                        DecChars[((tail \div 100) % 10) + 1], DecChars[((tail \div 10) % 10) + 1],
                        DecChars[(tail % 10) + 1]>>

\* the text of a value of the result: empty for a missing key, null and ""
TextOf(v) == IF v # Absent /\ v[1] = "str" THEN v[2] ELSE <<>>

\* C26 (as stated): when both keys of a pair are in the result the first is
\* used; when only the second is there it is used; when neither gives a
\* non-empty value the read fails.
C26_FirstAliasWins ==
    dec.fn = "build_system_info" =>
       LET res == dec.input[2]
       IN  /\ (res.issue_id # Absent /\ res.idi # Absent /\ dec.out.exc = "-") =>
                 dec.out.idi = Upper(TextOf(res.issue_id))
           /\ (res.issue_parameter # Absent /\ res.pmi # Absent /\ dec.out.exc = "-") =>
                 dec.out.pmi = Upper(TextOf(res.issue_parameter))
           /\ (res.issue_id = Absent /\ res.idi # Absent /\ dec.out.exc = "-") =>
                 dec.out.idi = Upper(TextOf(res.idi))
           /\ (res.issue_parameter = Absent /\ res.pmi # Absent /\ dec.out.exc = "-") =>
                 dec.out.pmi = Upper(TextOf(res.pmi))
           /\ (TextOf(res.issue_id) = <<>> /\ TextOf(res.idi) = <<>>) => dec.out.exc # "-"
           /\ (TextOf(res.issue_parameter) = <<>> /\ TextOf(res.pmi) = <<>>) =>
                 dec.out.exc # "-"

\* C26 (amended): of each pair the first key is used when it has a non-empty
\* value, whether or not the second is there; when the first is missing,
\* null or empty the second is used if it has a non-empty value; when
\* neither has one the read fails with an error, and otherwise it goes on
\* with the two values (in upper case).
C26_FirstNonEmptyAliasWins ==
    dec.fn = "build_system_info" =>
       LET res == dec.input[2]
           id == IF TextOf(res.issue_id) # <<>> THEN TextOf(res.issue_id)
                 ELSE TextOf(res.idi)
           param == IF TextOf(res.issue_parameter) # <<>> THEN TextOf(res.issue_parameter)
                    ELSE TextOf(res.pmi)
       IN  IF id = <<>> \/ param = <<>>
           THEN dec.out.exc = "RuntimeError" /\ dec.out.idi = <<>> /\ dec.out.pmi = <<>>
           ELSE /\ dec.out.exc = "-"
                /\ dec.out.idi = Upper(id)
                /\ dec.out.pmi = Upper(param)

\* both keys of both pairs have a value, the values differ, and the first
\* of each pair is the one used
C26_Witness ==
    /\ dec.fn = "build_system_info"
    /\ dec.input[2].issue_id = Str(Id1)
    /\ dec.input[2].idi = Str(Id2)
    /\ dec.input[2].issue_parameter = Str(<<"E", "F", "0", "1">>)
    /\ dec.input[2].pmi = Str(<<"a", "b", "C", "D">>)
    /\ dec.out.exc = "-"
    /\ dec.out.idi = Upper(Id1)
    /\ dec.out.pmi = <<"E", "F", "0", "1">>

(***************************************************************************)
(* Properties of the completion of mutual authentication.                  *)
(***************************************************************************)
\* mutual_authentication has ended on a response with step 'complete' and
\* no result
CompleteWithoutResult ==
    /\ op = "mutual_authentication"
    /\ pc = "idle"
    /\ Answered
    /\ IsResponse(reply)
    /\ Get(reply.step) = Str("complete")
    /\ reply.result = Absent

NoEnvelope(r) ==
    \/ r.command = Absent
    \/ r.command[2].frame = Absent
    \/ ~FromHexOK(r.command[2].frame[2])

\* C28: when a response that has to carry a command (step auth1 or auth2 of
\* mutual_authentication, the first response of encryption_exchange) has no
\* 'command', no 'command.frame' or a frame that is not hex, the operation
\* raises FelicaRemoteClientError at once: no frame goes to the card and no
\* further request is posted.
C28_BadEnvelopeStopsBeforeCard ==
    [][(/\ ReplyRead
        /\ IsResponse(reply')
        /\ NoEnvelope(reply')
        /\ \/ op = "mutual_authentication" /\ Get(reply'.step) \in AuthSteps
           \/ op = "encryption_exchange" /\ phase = "first") =>
           /\ pc' = "idle"
           /\ ret'.outcome = "raise"
           /\ ret'.exc = "FelicaRemoteClientError"
           /\ ret'.msg \in {"missing command data", "invalid command frame encoding"}
           /\ log' = log
           /\ exchanged' = exchanged
           /\ command' = command]_vars

\* the first response of an encrypted exchange had a frame that is not hex:
\* the one request is all the operation did
C28_Witness ==
    /\ op = "encryption_exchange"
    /\ phase = "first"
    /\ pc = "idle"
    /\ Answered
    /\ reply.command = CmdBadHex
    /\ ret.msg = "invalid command frame encoding"
    /\ Len(log) = 1
    /\ exchanged = NoExchange


(***************************************************************************)
(* Properties of the block addresses on the wire.                          *)
(***************************************************************************)
\* C29: every chunk payload sent is one count byte followed by the elements
\* of the chunk in the order of the input, so it is 1 + 2 * count long with
\* count in 1..12; the element of the block at (service index, block index),
\* service index in 0..15 and block index in 0..255, is the two bytes
\* (0x80 | service index, block index), and (byte0 & 0x0F, byte1) is the
\* address again, so no two addresses share an element.
C29_ElementEncoding ==
    \A k \in 1..Len(rb.calls) :
        LET payload == rb.calls[k]
            count == payload[1]
            first == MAX_BLOCKS_PER_REQUEST * (k - 1)
            left == Len(rb.index_list) - first
        IN  /\ count \in 1..12
            /\ count = IF left < 12 THEN left ELSE 12
            /\ Len(payload) = 1 + 2 * count
            /\ \A j \in 1..count :
                  LET block_number == rb.index_list[first + j]
                  IN  /\ rb.service_index \in 0..15
                      /\ block_number \in 0..255
                      /\ payload[2 * j] = BitOr(128, rb.service_index)
                      /\ payload[2 * j + 1] = block_number
                      /\ <<BitAnd(payload[2 * j], 15), payload[2 * j + 1]>>
                            = <<rb.service_index, block_number>>

\* the 256 blocks of service 15 read to the end: 21 chunks of 12 elements and
\* one of 4, the last element being (0x8F, 0xFF)
C29_Witness ==
    /\ rb.pc = "done"
    /\ rb.ret.outcome = "return"
    /\ rb.service_index = 15
    /\ rb.index_list = AllBlockNumbers
    /\ Len(rb.calls) = 22
    /\ Len(rb.calls[1]) = 25
    /\ rb.calls[22] = <<4, 143, 252, 143, 253, 143, 254, 143, 255>>


(***************************************************************************)
(* Properties of the gate events.                                          *)
(***************************************************************************)
\* C30: decoding the 3 blocks of service 7 gives exactly 3 events, the i-th
\* decoded from the i-th block and carrying the index i (from 0), whatever
\* the blocks hold: an all-zero block gives an event like any other and
\* does not end the list.
C30_GateEventPerBlock ==
    dec.fn = "read_gate_in_out_information" =>
        /\ Len(dec.input) = GateBlocks
        /\ Len(dec.out) = 3
        /\ \A i \in 1..3 :
              /\ dec.out[i].index = i - 1
              /\ dec.out[i].gate_in_out_type_code = dec.input[i][1]
              /\ dec.out[i].intermediate_gate_instruction_type_code = dec.input[i][2]
              /\ dec.out[i].device_id_hex = HexUpperOfBytes(Slice(dec.input[i], 4, 6))
              /\ dec.out[i].amount = FromBytesLittle(Slice(dec.input[i], 10, 12))

\* an all-zero block first and last, a written one between them
C30_Witness ==
    /\ dec.fn = "read_gate_in_out_information"
    /\ dec.input = <<ZeroBlock, GateBlockA, ZeroBlock>>
    /\ Len(dec.out) = 3
    /\ dec.out[1].index = 0
    /\ dec.out[1].gate_in_out_type_code = 0
    /\ dec.out[2].gate_in_out_type_code = \hA0
    /\ dec.out[2].amount = 210
    /\ dec.out[3].index = 2
    /\ dec.out[3].amount = 0

(***************************************************************************)
(* Properties of the flag and the identifier over sequences of operations. *)
(***************************************************************************)
\* C31: authenticated is false on construction; it becomes true only when a
\* mutual_authentication reads a 'complete' response and false only in
\* reset(): an encryption_exchange or a mutual_authentication that fails, and
\* a mutual_authentication that is started again, leave it as it is, so an
\* encryption_exchange called after an aborted one still passes the
\* precondition and posts its request.
C31_FlagChangesOnlyAtCompleteAndReset ==
    /\ [](nOps = 0 => ~authenticated)
    /\ [][(~authenticated /\ authenticated') =>
             /\ op = "mutual_authentication"
             /\ ReplyRead
             /\ IsResponse(reply')
             /\ reply'.step = Str("complete")]_vars
    /\ [][(authenticated /\ ~authenticated') => Called("reset")]_vars
    /\ [][(authenticated /\ (Aborts \/ Called("mutual_authentication"))) =>
             authenticated']_vars
    /\ [][(authenticated /\ Called("encryption_exchange")) =>
             /\ pc' = "post"
             /\ req'.kind = "command"
             /\ log' = <<PostEvent(EE_PATH, "command")>>]_vars

\* an encryption_exchange, the second operation on the client, was aborted
\* by a final response without a "response" field: the flag is still set
C31_Witness ==
    /\ nOps = 2
    /\ op = "encryption_exchange"
    /\ phase = "final"
    /\ pc = "idle"
    /\ ret.outcome = "raise"
    /\ ret.msg = "unexpected server response"
    /\ authenticated

(***************************************************************************)
(* Properties of the client reused by the GUI.                             *)
(***************************************************************************)
\* C32: in the GUI, whose taps share one client, a tap issues an encrypted
\* exchange only after a mutual authentication of that same tap read
\* 'complete'; the flag and the identifier an earlier card left are cleared
\* before the authentication of the new card starts: while it runs the flag
\* is unset, and its first request carries no identifier.
C32_NoExchangeOnEarlierAuthentication ==
    cd.frontend = "gui" =>
        /\ (cd.pc = "auth" /\ pc # "idle") => ~authenticated
        /\ (cd.pc = "auth" /\ req.kind = "init") => req.session_id = Null
        /\ cd.reads # <<>> => cd.auth_step = Str("complete")
        /\ (cd.pc = "read" /\ op = "encryption_exchange" /\ pc # "idle") =>
              /\ cd.auth_step = Str("complete")
              /\ authenticated

\* the data of an earlier tap is on display, and the tap being handled has
\* authenticated and posted the command of its first read
C32_Witness ==
    /\ cd.frontend = "gui"
    /\ cd.shown = "snapshot"
    /\ cd.scheduled = 0
    /\ cd.pc = "read"
    /\ Len(cd.reads) = 1
    /\ op = "encryption_exchange"
    /\ pc = "post"
    /\ phase = "first"
    /\ cd.auth_step = Str("complete")
    /\ authenticated

\* C33: a request carries the session_id stored when it is sent: while a
\* request is being posted its session_id is the stored one; the follow-up
\* request (the one with card_response) carries the identifier of the
\* response just read when that response has a non-empty one, which is then
\* the stored one, and the identifier of the request before it otherwise; and
\* the first request of a mutual_authentication called on a new client, or
\* right after a reset without an identifier, carries a null session_id.
C33_RequestCarriesStoredIdentifier ==
    /\ [](pc = "post" => req.session_id = session_id)
    /\ [][(pc = "card" /\ pc' = "post") =>
             /\ req'.kind = "card_response"
             /\ req'.session_id = session_id
             /\ req'.session_id =
                   IF reply.session_id \in {Str(x) : x \in SessionIds}
                   THEN reply.session_id
                   ELSE req.session_id]_vars
    /\ [][(/\ Called("mutual_authentication")
           /\ nOps = 0 \/ (op = "reset" /\ args.session_id = Null)) =>
             /\ req'.kind = "init"
             /\ req'.session_id = Null]_vars

\* the first response of an encryption_exchange carried s1 and the follow-up
\* request, about to be posted, carries s1; the command request was sent
\* by the second operation on the client
C33_Witness ==
    /\ nOps = 2
    /\ op = "encryption_exchange"
    /\ phase = "final"
    /\ pc = "post"
    /\ attempts = <<>>
    /\ reply.session_id = Str("s1")
    /\ req.kind = "card_response"
    /\ req.session_id = Str("s1")
    /\ session_id = Str("s1")

(***************************************************************************)
(* Properties of the transport retry.                                      *)
(***************************************************************************)
\* C34: the retry of post() sends the request of the first attempt again,
\* unchanged (path, body, session_id), and is made whether the first attempt
\* failed before the request was written or while the response was read; so
\* within one post() call the authority can receive the request of one step
\* twice, and never more than twice.
C34_RetrySendsSameRequestAgain ==
    /\ [][pc = "post" => (req' = req /\ (pc' = "post" => session_id' = session_id))]_vars
    /\ []((Len(attempts) = 1 /\ attempts[1].out \in {"unsent", "lost"}) =>
             (pc = "post" /\ attempt = 1))
    /\ [](Cardinality(Delivered) <= 2)
    /\ [](Len(attempts) <= MaxAttempts)

\* the first attempt was written and failed while the response was read;
\* the second was answered with the next step, which the client accepted:
\* the authority received the first request of the authentication twice
C34_Witness ==
    /\ op = "mutual_authentication"
    /\ Len(attempts) = 2
    /\ attempts[1].out = "lost"
    /\ attempts[2].out = "answered"
    /\ Cardinality(Delivered) = 2
    /\ req.kind = "init"
    /\ IsResponse(reply)
    /\ pc = "card"

\* C35: a reply that is an error response (HTTP status >= 400, or a body with
\* "error"), on which _post raises, leaves session_id as it was, also when
\* the reply carries a session_id: only replies that pass the error check
\* have their identifier adopted.
C35_ErrorReplyKeepsIdentifier ==
    [][(ReplyRead /\ IsAppError(reply')) =>
          /\ session_id' = session_id
          /\ pc' = "idle"
          /\ ret'.outcome = "raise"]_vars

\* an error body that carried s2 was read while s1 was stored: s1 stays
C35_Witness ==
    /\ Answered
    /\ reply.status = 200
    /\ reply.error # Absent
    /\ reply.session_id = Str("s2")
    /\ session_id = Str("s1")
    /\ pc = "idle"
    /\ ret.outcome = "raise"

(***************************************************************************)
(* Properties of the validation of addresses.                              *)
(***************************************************************************)
\* the chunk (from 1) that holds the first address out of range of the read,
\* 0 when every address is in range
FirstBadChunk ==
    LET bad == {i \in 1..Len(rb.index_list) : rb.index_list[i] \notin 0..255}
    IN  IF rb.index_list = <<>> THEN 0
        ELSE IF rb.service_index \notin 0..15 THEN 1
        ELSE IF bad = {} THEN 0
        ELSE ((CHOOSE i \in bad : \A j \in bad : i <= j) - 1)
                 \div MAX_BLOCKS_PER_REQUEST + 1

C37_StepsInAnyOrderAndNumber ==
    /\ [][(/\ ReplyRead
           /\ op = "mutual_authentication"
           /\ reply' \in AuthStepReplies) =>
             /\ pc' = "card"
             /\ rounds' = rounds + 1
             /\ command'.frame = FromHex(reply'.command[2].frame[2])
             /\ authenticated' = authenticated
             /\ log' = log]_vars
    /\ [][(/\ ReplyRead
           /\ op = "mutual_authentication"
           /\ reply' \in CompleteReplies) =>
             /\ pc' = "idle"
             /\ ret'.outcome = "return"
             /\ authenticated'
             /\ log' = AuthLog(rounds)
             /\ Len(SelectSeq(log', LAMBDA ev : ev = CardEvent)) = rounds]_vars

\* auth2 came first and its frame (FF 01) went to the card; auth1 came
\* second and its frame is about to go
C37_Witness ==
    /\ op = "mutual_authentication"
    /\ pc = "card"
    /\ rounds = 2
    /\ reply.step = Str("auth1")
    /\ exchanged.ok
    /\ exchanged.frame = <<255, 1>>
    /\ command.frame = <<10, 11>>
    /\ log = AuthLog(1)

(***************************************************************************)
(* Termination.                                                            *)
(***************************************************************************)
\* the events of the given kind in the log of the operation
Events(ev) == Len(SelectSeq(log, LAMBDA e : e.ev = ev))

\* C38: when every POST and every card exchange comes back, a
\* mutual_authentication that is sent finitely many auth1/auth2 steps
\* returns or raises, and so does encryption_exchange; the client itself
\* never ends an authentication for the number of its rounds: an auth1 or
\* auth2 response with a usable command always starts one more; an
\* encryption_exchange makes at most two POSTs and one card exchange; every
\* turn of the loop of read_blocks ends the read or makes one more exchange
\* on the next chunk, and a read over N indices makes at most ceil(N/12).
C38_OperationsTerminate ==
    /\ (pc # "idle") ~> (pc = "idle" /\ ret.outcome \in {"return", "raise"})
    /\ [][rb.pc = "reading" =>
             \/ rb'.pc = "done" /\ rb'.ret.outcome \in {"return", "raise"}
             \/ /\ rb'.pc = "reading"
                /\ Len(rb'.calls) = Len(rb.calls) + 1
                /\ rb'.chunk_start = rb.chunk_start + MAX_BLOCKS_PER_REQUEST
                /\ rb'.chunk_start < Len(rb.index_list)]_vars
    /\ [][(/\ ReplyRead
           /\ op = "mutual_authentication"
           /\ IsResponse(reply')
           /\ reply'.step \in AuthSteps
           /\ extract_command(reply').err.outcome # "raise") =>
             /\ pc' = "card"
             /\ rounds' = rounds + 1]_vars
    /\ [](op = "encryption_exchange" =>
             /\ Events("post") <= 2
             /\ Events("card") <= 1
             /\ Len(log) <= 3)
    /\ [](rb.pc \in {"reading", "done"} =>
             Len(rb.calls) <= (Len(rb.index_list) + MAX_BLOCKS_PER_REQUEST - 1)
                                 \div MAX_BLOCKS_PER_REQUEST)

\* an authentication returned after two rounds of auth1/auth2
C38_Witness ==
    /\ op = "mutual_authentication"
    /\ pc = "idle"
    /\ ret.outcome = "return"
    /\ rounds = 2
    /\ Events("post") = 3
    /\ Events("card") = 2

\* what both readers have: the locals of read_blocks, the payloads sent so
\* far and the result
ReaderLocals(r) ==
    [service_index |-> r.service_index, index_list |-> r.index_list,
     chunk_start |-> r.chunk_start, blocks |-> r.blocks, calls |-> r.calls,
     pc |-> r.pc, ret |-> r.ret]

\* C39: the RemoteCardReader of cli.py and the one of gui.py are
\* observationally equivalent.  Whatever the service index and the indexes,
\* a call of read_blocks leaves both in the same state, and from the same
\* state every turn of the loop, given the same outcome of the encrypted
\* exchange (the same response, or the same exception), makes both send the
\* same payload or none, and leaves both with the same blocks, or with an
\* error of the same kind raised at the same point; so both send the same
\* payloads in the same order and end in the same result.
C39_ReadersEquivalent ==
    [][/\ (rb.pc = "idle" /\ rb'.pc # "idle") =>
            ReaderLocals(rb') = gui_read_blocks(rb'.service_index, rb'.index_list)
       /\ (rb.pc = "reading" /\ rb' # rb) =>
            LET raised == IF ~rb'.answered /\ rb'.ret.msg = "encryption_exchange"
                          THEN rb'.ret.exc ELSE "-"
            IN  ReaderLocals(rb') =
                    gui_read_blocks_turn(ReaderLocals(rb), raised, rb'.response)]_vars
C39_Witness ==
    /\ rb.pc = "done"
    /\ Len(rb.calls) = 2
    /\ rb.ret.outcome = "raise"
    /\ rb.ret.msg = "block count"
    /\ Len(rb.blocks) = MAX_BLOCKS_PER_REQUEST
    /\ ReaderLocals(rb) =
          gui_read_blocks_turn(
              gui_read_blocks_turn(gui_read_blocks(rb.service_index, rb.index_list),
                                   "-", ReadResponse("good", rb.calls[1])),
              "-", rb.response)

\* _on_close ran while the NFC thread was handling a tap and that tap is
\* still being handled: _remote_client is None until the next tap
ClosedUnderTap == cd.closed /\ cd.client = "none" /\ cd.pc \in {"auth", "read"}

\* C40: GUI shutdown race.  _on_close runs at any moment of a tap, nothing
\* makes it wait for the NFC thread; it leaves the client without a
\* connection and the application without a client, and changes nothing else:
\* the operation, the request in flight and the read in progress stay where
\* they were.  The read goes on: until the NFC thread's next attempt the
\* client has no connection, and that attempt is made on a new connection,
\* which is kept when the attempt is answered.  So requests to the authority
\* and card exchanges still occur after _on_close closed the channel.
C40_CloseDoesNotStopTheRead ==
    [][/\ (~cd.closed /\ cd'.closed) =>
            /\ connection' = "none"
            /\ cd' = [cd EXCEPT !.client = "none", !.closed = TRUE]
            /\ rb' = rb
            /\ <<session_id, authenticated, pc, op, phase, rounds, req, attempt,
                 attempts, reply, command, exchanged, log, ret, nOps, tag, args>>' =
               <<session_id, authenticated, pc, op, phase, rounds, req, attempt,
                 attempts, reply, command, exchanged, log, ret, nOps, tag, args>>
       /\ (ClosedUnderTap /\ connection = "none" /\ attempts' # attempts
           /\ attempts' # <<>>) =>
            /\ pc = "post"
            /\ attempts'[Len(attempts')].fresh
            /\ connection' = IF attempts'[Len(attempts')].out = "answered"
                             THEN "open" ELSE "none"
       /\ (ClosedUnderTap /\ connection' = "open" /\ connection = "none") =>
            /\ pc = "post"
            /\ attempts'[Len(attempts')] = [fresh |-> TRUE, out |-> "answered"]]_vars
\* closed during the first request of a read: that request was answered on a
\* new connection, the card was asked, and the second request is on its way
C40_Witness ==
    /\ ClosedUnderTap
    /\ cd.pc = "read"
    /\ op = "encryption_exchange"
    /\ phase = "final"
    /\ pc = "post"
    /\ connection = "open"
    /\ log = <<PostEvent(EE_PATH, "command"), CardEvent,
               PostEvent(EE_PATH, "card_response")>>

====
